---- MODULE Spec2Model ----
(***************************************************************************)
(* A model of the constraint-checking engine of the orchestrator           *)
(* (src/orchestrator/constraint_checks.py): the checker registry, the      *)
(* evaluation of one ConstraintSet (_evaluate) and the two-gate protocol   *)
(* (check_constraints), and of the loader that resolves the constraints of *)
(* a task or a function from a profiles file                               *)
(* (src/orchestrator/constraint_loader.py).                                *)
(*                                                                         *)
(* Representation of Python values:                                        *)
(*   - None is the record [cls |-> "NoneType"];                            *)
(*   - an ast node is a record whose field cls is the node's class name;   *)
(*     every child-bearing field holds a sequence of nodes (an optional    *)
(*     single child is a sequence of length 0 or 1); operator and          *)
(*     expression-context nodes (And, Load, ...) are left out, Name keeps  *)
(*     its context as the string ctx;                                      *)
(*   - a str constant is the sequence of its characters;                   *)
(*   - a ConstraintSet is a record that holds exactly the fields that are  *)
(*     not None (pydantic's default for every field is None);              *)
(*   - a dict is a function from its keys; the empty dict and the empty    *)
(*     list are both << >>;                                                *)
(*   - an optional str (str | None) is a list of at most one str;          *)
(*   - a source text is named by a key of Corpus, which records what the   *)
(*     program reads of the text: whether ast.parse accepts it, the        *)
(*     lengths of its pieces between newline characters, and the tree      *)
(*     ast.parse gives; the variable source_code holds the key, and the    *)
(*     operators of the program get the text as Texts[key].                *)
(***************************************************************************)
EXTENDS Integers, Sequences, FiniteSets, TLC

VARIABLES
    pc,             \* where the current call of check_constraints stands
    source_code,    \* check_constraints' argument source_code
    constraints,    \* check_constraints' argument constraints (TaskConstraints)
    primary,        \* the local primary of check_constraints
    secondary,      \* the local secondary of check_constraints
    checkers,       \* the module-level list _CHECKERS
    secondary_runs, \* how many checkers were called on constraints.secondary
    memo,           \* an earlier call a caller kept: its arguments and outcome
    profiles_data,  \* what yaml.safe_load gave load_profiles for the profiles file
    profiles,       \* the dictionary load_profiles returned
    request,        \* the arguments spec and function_name of resolve_constraints
    resolved,       \* what resolve_constraints chose and what came of the call
    session_pc,     \* where run_session stands, "stopped" when no run is on
    state,          \* run_session's state.function_progress
    session_file,   \* the content of the session file, None while there is none
    index,          \* the position of run_session's loop in function_progress
    config,         \* max_iterations and the flags auto_tests, auto_critique
    cycle,          \* the critique cycles of process_function begun
    attempt,        \* the attempts begun: of _generate_and_approve, of run_implementation
    test_source,    \* the local test_source of _generate_and_approve
    approved_source,\* prompt_user_review's test_source, process_function's approved_source
    process_calls,  \* what the run loaded as not done, and the calls of process_function
    impl_pc,        \* where run_implementation stands
    generated_paths,\* the test files _write_generated_tests wrote
    max_attempts,   \* run_implementation's max_attempts
    error_feedback, \* run_implementation's error_feedback
    agent_runs,     \* the runs of the implementation agent: prompt and outcome
    success         \* what run_implementation returned, None before

\* the state of the profile loader
loader_vars == <<profiles_data, profiles, request, resolved>>

\* the state of run_session and of process_function beneath it
session_vars == <<session_pc, state, session_file, index, config, cycle, test_source,
                  approved_source, process_calls>>

\* the state of run_implementation
impl_vars == <<impl_pc, generated_paths, max_attempts, error_feedback, agent_runs, success>>

\* the state of the callers of check_constraints
caller_vars == <<session_vars, impl_vars, attempt>>

\* the state of check_constraints
check_vars == <<pc, source_code, constraints, primary, secondary, checkers, secondary_runs, memo>>

vars == <<check_vars, loader_vars, caller_vars>>

None == [cls |-> "NoneType"]

(***************************************************************************)
(* Python built-ins used by the checkers.                                  *)
(***************************************************************************)

\* max(a, b)
max(a, b) == IF a >= b THEN a ELSE b

\* [f(x) for x in s]
SeqMap(f(_), s) == [i \in 1..Len(s) |-> f(s[i])]

\* the concatenation of a list of lists, in order
RECURSIVE Concat(_)
Concat(ss) ==
    IF Len(ss) = 0 THEN <<>>
    ELSE IF Len(ss) = 1 THEN ss[1]
    ELSE LET half == Len(ss) \div 2
         IN  Concat(SubSeq(ss, 1, half)) \o Concat(SubSeq(ss, half + 1, Len(ss)))

\* sum(1 for x in s if test(x))
Count(test(_), s) == Len(SelectSeq(s, test))

\* x in s, for a list s
In(x, s) == \E i \in 1..Len(s) : s[i] = x

\* sub in text, for two str values (sequences of characters)
Contains(text, sub) ==
    \E i \in 0..(Len(text) - Len(sub)) : SubSeq(text, i + 1, i + Len(sub)) = sub

\* d[key] = value on a dict d
Put(d, key, value) == (key :> value) @@ d

\* F(value), the value worked out once however often F reads it
Once(value, F(_)) == CHOOSE out \in { F(x) : x \in {value} } : TRUE

(***************************************************************************)
(* The ast module: node classes, iter_child_nodes and walk.                *)
(***************************************************************************)

\* ast.AST._fields of the node classes, child-bearing fields only, in the
\* order iter_child_nodes reads them.
_fields ==
    [Module |-> <<"body">>,
     FunctionDef |-> <<"args", "body", "decorator_list", "returns">>,
     AsyncFunctionDef |-> <<"args", "body", "decorator_list", "returns">>,
     ClassDef |-> <<"bases", "keywords", "body", "decorator_list">>,
     Return |-> <<"value">>,
     Delete |-> <<"targets">>,
     Assign |-> <<"targets", "value">>,
     AugAssign |-> <<"target", "value">>,
     AnnAssign |-> <<"target", "annotation", "value">>,
     For |-> <<"target", "iter", "body", "orelse">>,
     AsyncFor |-> <<"target", "iter", "body", "orelse">>,
     While |-> <<"test", "body", "orelse">>,
     If |-> <<"test", "body", "orelse">>,
     With |-> <<"items", "body">>,
     AsyncWith |-> <<"items", "body">>,
     Raise |-> <<"exc", "cause">>,
     Try |-> <<"body", "handlers", "orelse", "finalbody">>,
     Import |-> <<"names">>,
     ImportFrom |-> <<"names">>,
     Expr |-> <<"value">>,
     Pass |-> <<>>,
     Break |-> <<>>,
     Continue |-> <<>>,
     BoolOp |-> <<"values">>,
     BinOp |-> <<"left", "right">>,
     UnaryOp |-> <<"operand">>,
     Lambda |-> <<"args", "body">>,
     IfExp |-> <<"test", "body", "orelse">>,
     Dict |-> <<"keys", "values">>,
     Set |-> <<"elts">>,
     ListComp |-> <<"elt", "generators">>,
     Compare |-> <<"left", "comparators">>,
     Call |-> <<"func", "args", "keywords">>,
     Constant |-> <<>>,
     Attribute |-> <<"value">>,
     Subscript |-> <<"value", "slice">>,
     Name |-> <<>>,
     List |-> <<"elts">>,
     Tuple |-> <<"elts">>,
     comprehension |-> <<"target", "iter", "ifs">>,
     ExceptHandler |-> <<"type", "body">>,
     arguments |-> <<"posonlyargs", "args", "vararg", "kwonlyargs", "kw_defaults",
                     "kwarg", "defaults">>,
     arg |-> <<"annotation">>,
     keyword |-> <<"value">>,
     alias |-> <<>>,
     withitem |-> <<"context_expr", "optional_vars">>,
     NoneType |-> <<>>]
    @@ ("Assert" :> <<"test", "msg">>)

\* isinstance(node, classes)
isinstance(node, classes) == node.cls \in classes

\* getattr(node, attr, <<>>) for a list-valued attribute
getattr(node, attr) == IF attr \in DOMAIN node THEN node[attr] ELSE <<>>

\* ast.iter_child_nodes(node): the nodes held by the fields of node, in field
\* order; a None held by a list (Dict.keys, arguments.kw_defaults) is no node
iter_child_nodes(node) ==
    LET names == _fields[node.cls]
    IN  SelectSeq(Concat([i \in 1..Len(names) |-> node[names[i]]]),
                  LAMBDA child : child.cls # "NoneType")

\* what the deque of ast.walk yields from a level of the tree on: the
\* level, then the children of its nodes, and so on
RECURSIVE walk_levels(_)
walk_levels(level) ==
    IF level = <<>> THEN <<>>
    ELSE level \o walk_levels(Concat(SeqMap(iter_child_nodes, level)))

\* ast.walk(node): node and its descendants, breadth first
ast_walk(node) == walk_levels(<<node>>)

FunctionDefs == {"FunctionDef", "AsyncFunctionDef"}

(***************************************************************************)
(* The corpus of source texts.                                            *)
(***************************************************************************)

\*   (the empty text)
Src_empty ==
    [valid |-> TRUE, pieces |-> <<0>>,
     tree |-> [cls |-> "Module", nid |-> 1, lineno |-> 0, body |-> <<>>]]

\*   def add(a, b):
\*       """Add.
\*   
\*       Args: a, b
\*       Returns: sum
\*       """
\*       return a + b
Src_simple ==
    [valid |-> TRUE, pieces |-> <<14, 11, 0, 14, 16, 7, 16, 0>>,
     tree |-> [cls |-> "Module", nid |-> 1, lineno |-> 0,
             body |-> <<
              [cls |-> "FunctionDef", nid |-> 2, lineno |-> 1, end_lineno |-> 7, name |-> "add",
               args |-> <<[cls |-> "arguments", nid |-> 3, lineno |-> 0, posonlyargs |-> <<>>,
                 args |-> <<
                  [cls |-> "arg", nid |-> 4, lineno |-> 1, arg |-> "a", annotation |-> <<>>],
                  [cls |-> "arg", nid |-> 5, lineno |-> 1, arg |-> "b", annotation |-> <<>>]>>,
                 vararg |-> <<>>, kwonlyargs |-> <<>>, kw_defaults |-> <<>>, kwarg |-> <<>>,
                 defaults |-> <<>>]>>,
               body |-> <<
                [cls |-> "Expr", nid |-> 6, lineno |-> 2,
                 value |-> <<[cls |-> "Constant", nid |-> 7, lineno |-> 2, vtype |-> "str", value |-> <<"A", "d", "d", ".", "\n", "\n", " ", " ", " ", " ", "A", "r", "g", "s", ":", " ", "a", ",", " ", "b", "\n", " ", " ", " ", " ", "R", "e", "t", "u", "r", "n", "s", ":", " ", "s", "u", "m", "\n", " ", " ", " ", " ">>]>>],
                [cls |-> "Return", nid |-> 8, lineno |-> 7,
                 value |-> <<[cls |-> "BinOp", nid |-> 9, lineno |-> 7,
                   left |-> <<[cls |-> "Name", nid |-> 10, lineno |-> 7, ctx |-> "Load", id |-> "a"]>>,
                   right |-> <<[cls |-> "Name", nid |-> 11, lineno |-> 7, ctx |-> "Load", id |-> "b"]>>]>>]>>,
               decorator_list |-> <<>>, returns |-> <<>>]>>]]

\*   def g(): pass
Src_oneline ==
    [valid |-> TRUE, pieces |-> <<13, 0>>,
     tree |-> [cls |-> "Module", nid |-> 1, lineno |-> 0,
             body |-> <<
              [cls |-> "FunctionDef", nid |-> 2, lineno |-> 1, end_lineno |-> 1, name |-> "g",
               args |-> <<[cls |-> "arguments", nid |-> 3, lineno |-> 0, posonlyargs |-> <<>>, args |-> <<>>,
                 vararg |-> <<>>, kwonlyargs |-> <<>>, kw_defaults |-> <<>>, kwarg |-> <<>>,
                 defaults |-> <<>>]>>,
               body |-> <<
                [cls |-> "Pass", nid |-> 4, lineno |-> 1]>>,
               decorator_list |-> <<>>, returns |-> <<>>]>>]]

\*   def f():
\*       return None
Src_tiny ==
    [valid |-> TRUE, pieces |-> <<8, 15, 0>>,
     tree |-> [cls |-> "Module", nid |-> 1, lineno |-> 0,
             body |-> <<
              [cls |-> "FunctionDef", nid |-> 2, lineno |-> 1, end_lineno |-> 2, name |-> "f",
               args |-> <<[cls |-> "arguments", nid |-> 3, lineno |-> 0, posonlyargs |-> <<>>, args |-> <<>>,
                 vararg |-> <<>>, kwonlyargs |-> <<>>, kw_defaults |-> <<>>, kwarg |-> <<>>,
                 defaults |-> <<>>]>>,
               body |-> <<
                [cls |-> "Return", nid |-> 4, lineno |-> 2,
                 value |-> <<[cls |-> "Constant", nid |-> 5, lineno |-> 2, vtype |-> "NoneType", value |-> <<"N", "o", "n", "e">>]>>]>>,
               decorator_list |-> <<>>, returns |-> <<>>]>>]]

\*   import os
\*   from typing import *
\*   
\*   def classify(x, y=[]):
\*       if x > 10 and y:
\*           return "high"
\*       elif x > 5:
\*           return "mid"
\*       for i in range(x):
\*           for j in range(i):
\*               print(i, j)
\*       return "low"
Src_branchy ==
    [valid |-> TRUE, pieces |-> <<9, 20, 0, 22, 20, 21, 15, 20, 22, 26, 23, 16, 0>>,
     tree |-> [cls |-> "Module", nid |-> 1, lineno |-> 0,
             body |-> <<
              [cls |-> "Import", nid |-> 2, lineno |-> 1,
               names |-> <<
                [cls |-> "alias", nid |-> 3, lineno |-> 1, name |-> "os", asname |-> ""]>>],
              [cls |-> "ImportFrom", nid |-> 4, lineno |-> 2, module |-> "typing",
               names |-> <<
                [cls |-> "alias", nid |-> 5, lineno |-> 2, name |-> "*", asname |-> ""]>>],
              [cls |-> "FunctionDef", nid |-> 6, lineno |-> 4, end_lineno |-> 12, name |-> "classify",
               args |-> <<[cls |-> "arguments", nid |-> 7, lineno |-> 0, posonlyargs |-> <<>>,
                 args |-> <<
                  [cls |-> "arg", nid |-> 8, lineno |-> 4, arg |-> "x", annotation |-> <<>>],
                  [cls |-> "arg", nid |-> 9, lineno |-> 4, arg |-> "y", annotation |-> <<>>]>>,
                 vararg |-> <<>>, kwonlyargs |-> <<>>, kw_defaults |-> <<>>, kwarg |-> <<>>,
                 defaults |-> <<
                  [cls |-> "List", nid |-> 10, lineno |-> 4, elts |-> <<>>]>>]>>,
               body |-> <<
                [cls |-> "If", nid |-> 11, lineno |-> 5,
                 test |-> <<[cls |-> "BoolOp", nid |-> 12, lineno |-> 5,
                   values |-> <<
                    [cls |-> "Compare", nid |-> 13, lineno |-> 5,
                     left |-> <<[cls |-> "Name", nid |-> 14, lineno |-> 5, ctx |-> "Load", id |-> "x"]>>,
                     comparators |-> <<
                      [cls |-> "Constant", nid |-> 15, lineno |-> 5, vtype |-> "int", value |-> <<"1", "0">>]>>],
                    [cls |-> "Name", nid |-> 16, lineno |-> 5, ctx |-> "Load", id |-> "y"]>>]>>,
                 body |-> <<
                  [cls |-> "Return", nid |-> 17, lineno |-> 6,
                   value |-> <<[cls |-> "Constant", nid |-> 18, lineno |-> 6, vtype |-> "str", value |-> <<"h", "i", "g", "h">>]>>]>>,
                 orelse |-> <<
                  [cls |-> "If", nid |-> 19, lineno |-> 7,
                   test |-> <<[cls |-> "Compare", nid |-> 20, lineno |-> 7,
                     left |-> <<[cls |-> "Name", nid |-> 21, lineno |-> 7, ctx |-> "Load", id |-> "x"]>>,
                     comparators |-> <<
                      [cls |-> "Constant", nid |-> 22, lineno |-> 7, vtype |-> "int", value |-> <<"5">>]>>]>>,
                   body |-> <<
                    [cls |-> "Return", nid |-> 23, lineno |-> 8,
                     value |-> <<[cls |-> "Constant", nid |-> 24, lineno |-> 8, vtype |-> "str", value |-> <<"m", "i", "d">>]>>]>>,
                   orelse |-> <<>>]>>],
                [cls |-> "For", nid |-> 25, lineno |-> 9,
                 target |-> <<[cls |-> "Name", nid |-> 26, lineno |-> 9, ctx |-> "Store", id |-> "i"]>>,
                 iter |-> <<[cls |-> "Call", nid |-> 27, lineno |-> 9,
                   func |-> <<[cls |-> "Name", nid |-> 28, lineno |-> 9, ctx |-> "Load", id |-> "range"]>>,
                   args |-> <<
                    [cls |-> "Name", nid |-> 29, lineno |-> 9, ctx |-> "Load", id |-> "x"]>>,
                   keywords |-> <<>>]>>,
                 body |-> <<
                  [cls |-> "For", nid |-> 30, lineno |-> 10,
                   target |-> <<[cls |-> "Name", nid |-> 31, lineno |-> 10, ctx |-> "Store", id |-> "j"]>>,
                   iter |-> <<[cls |-> "Call", nid |-> 32, lineno |-> 10,
                     func |-> <<[cls |-> "Name", nid |-> 33, lineno |-> 10, ctx |-> "Load", id |-> "range"]>>,
                     args |-> <<
                      [cls |-> "Name", nid |-> 34, lineno |-> 10, ctx |-> "Load", id |-> "i"]>>,
                     keywords |-> <<>>]>>,
                   body |-> <<
                    [cls |-> "Expr", nid |-> 35, lineno |-> 11,
                     value |-> <<[cls |-> "Call", nid |-> 36, lineno |-> 11,
                       func |-> <<[cls |-> "Name", nid |-> 37, lineno |-> 11, ctx |-> "Load", id |-> "print"]>>,
                       args |-> <<
                        [cls |-> "Name", nid |-> 38, lineno |-> 11, ctx |-> "Load", id |-> "i"],
                        [cls |-> "Name", nid |-> 39, lineno |-> 11, ctx |-> "Load", id |-> "j"]>>,
                       keywords |-> <<>>]>>]>>,
                   orelse |-> <<>>]>>,
                 orelse |-> <<>>],
                [cls |-> "Return", nid |-> 40, lineno |-> 12,
                 value |-> <<[cls |-> "Constant", nid |-> 41, lineno |-> 12, vtype |-> "str", value |-> <<"l", "o", "w">>]>>]>>,
               decorator_list |-> <<>>, returns |-> <<>>]>>]]

\*   import pickle
\*   import pdb
\*   import subprocess
\*   import requests
\*   import yaml
\*   
\*   TIMEOUT = 30
\*   password = "hunter2"
\*   cache = {"a": 1, "a": 2}
\*   
\*   def load(path, opts=dict()):
\*       import json
\*       f = open(path)
\*       try:
\*           data = pickle.loads(f.read())
\*       except:
\*           pass
\*       finally:
\*           return eval(path)
\*       exec(path)
\*   
\*   def fetch(url, retries):
\*       id = []
\*       for i in range(retries):
\*           id.append(lambda: i)
\*       cfg = yaml.load(url)
\*       subprocess.run(url, shell=True)
\*       breakpoint()
\*       return requests.get(url)
\*       cfg = None
Src_unsafe ==
    [valid |-> TRUE, pieces |-> <<13, 10, 17, 15, 11, 0, 12, 20, 24, 0, 28, 15, 18, 8, 37, 11, 12, 12, 25, 14, 0, 24, 11, 28, 28, 24, 35, 16, 28, 14, 0>>,
     tree |-> [cls |-> "Module", nid |-> 1, lineno |-> 0,
             body |-> <<
              [cls |-> "Import", nid |-> 2, lineno |-> 1,
               names |-> <<
                [cls |-> "alias", nid |-> 3, lineno |-> 1, name |-> "pickle", asname |-> ""]>>],
              [cls |-> "Import", nid |-> 4, lineno |-> 2,
               names |-> <<
                [cls |-> "alias", nid |-> 5, lineno |-> 2, name |-> "pdb", asname |-> ""]>>],
              [cls |-> "Import", nid |-> 6, lineno |-> 3,
               names |-> <<
                [cls |-> "alias", nid |-> 7, lineno |-> 3, name |-> "subprocess", asname |-> ""]>>],
              [cls |-> "Import", nid |-> 8, lineno |-> 4,
               names |-> <<
                [cls |-> "alias", nid |-> 9, lineno |-> 4, name |-> "requests", asname |-> ""]>>],
              [cls |-> "Import", nid |-> 10, lineno |-> 5,
               names |-> <<
                [cls |-> "alias", nid |-> 11, lineno |-> 5, name |-> "yaml", asname |-> ""]>>],
              [cls |-> "Assign", nid |-> 12, lineno |-> 7,
               targets |-> <<
                [cls |-> "Name", nid |-> 13, lineno |-> 7, ctx |-> "Store", id |-> "TIMEOUT"]>>,
               value |-> <<[cls |-> "Constant", nid |-> 14, lineno |-> 7, vtype |-> "int", value |-> <<"3", "0">>]>>],
              [cls |-> "Assign", nid |-> 15, lineno |-> 8,
               targets |-> <<
                [cls |-> "Name", nid |-> 16, lineno |-> 8, ctx |-> "Store", id |-> "password"]>>,
               value |-> <<[cls |-> "Constant", nid |-> 17, lineno |-> 8, vtype |-> "str", value |-> <<"h", "u", "n", "t", "e", "r", "2">>]>>],
              [cls |-> "Assign", nid |-> 18, lineno |-> 9,
               targets |-> <<
                [cls |-> "Name", nid |-> 19, lineno |-> 9, ctx |-> "Store", id |-> "cache"]>>,
               value |-> <<[cls |-> "Dict", nid |-> 20, lineno |-> 9,
                 keys |-> <<
                  [cls |-> "Constant", nid |-> 21, lineno |-> 9, vtype |-> "str", value |-> <<"a">>],
                  [cls |-> "Constant", nid |-> 22, lineno |-> 9, vtype |-> "str", value |-> <<"a">>]>>,
                 values |-> <<
                  [cls |-> "Constant", nid |-> 23, lineno |-> 9, vtype |-> "int", value |-> <<"1">>],
                  [cls |-> "Constant", nid |-> 24, lineno |-> 9, vtype |-> "int", value |-> <<"2">>]>>]>>],
              [cls |-> "FunctionDef", nid |-> 25, lineno |-> 11, end_lineno |-> 20, name |-> "load",
               args |-> <<[cls |-> "arguments", nid |-> 26, lineno |-> 0, posonlyargs |-> <<>>,
                 args |-> <<
                  [cls |-> "arg", nid |-> 27, lineno |-> 11, arg |-> "path", annotation |-> <<>>],
                  [cls |-> "arg", nid |-> 28, lineno |-> 11, arg |-> "opts", annotation |-> <<>>]>>,
                 vararg |-> <<>>, kwonlyargs |-> <<>>, kw_defaults |-> <<>>, kwarg |-> <<>>,
                 defaults |-> <<
                  [cls |-> "Call", nid |-> 29, lineno |-> 11,
                   func |-> <<[cls |-> "Name", nid |-> 30, lineno |-> 11, ctx |-> "Load", id |-> "dict"]>>,
                   args |-> <<>>, keywords |-> <<>>]>>]>>,
               body |-> <<
                [cls |-> "Import", nid |-> 31, lineno |-> 12,
                 names |-> <<
                  [cls |-> "alias", nid |-> 32, lineno |-> 12, name |-> "json", asname |-> ""]>>],
                [cls |-> "Assign", nid |-> 33, lineno |-> 13,
                 targets |-> <<
                  [cls |-> "Name", nid |-> 34, lineno |-> 13, ctx |-> "Store", id |-> "f"]>>,
                 value |-> <<[cls |-> "Call", nid |-> 35, lineno |-> 13,
                   func |-> <<[cls |-> "Name", nid |-> 36, lineno |-> 13, ctx |-> "Load", id |-> "open"]>>,
                   args |-> <<
                    [cls |-> "Name", nid |-> 37, lineno |-> 13, ctx |-> "Load", id |-> "path"]>>,
                   keywords |-> <<>>]>>],
                [cls |-> "Try", nid |-> 38, lineno |-> 14,
                 body |-> <<
                  [cls |-> "Assign", nid |-> 39, lineno |-> 15,
                   targets |-> <<
                    [cls |-> "Name", nid |-> 40, lineno |-> 15, ctx |-> "Store", id |-> "data"]>>,
                   value |-> <<[cls |-> "Call", nid |-> 41, lineno |-> 15,
                     func |-> <<[cls |-> "Attribute", nid |-> 42, lineno |-> 15,
                       value |-> <<[cls |-> "Name", nid |-> 43, lineno |-> 15, ctx |-> "Load", id |-> "pickle"]>>,
                       attr |-> "loads"]>>,
                     args |-> <<
                      [cls |-> "Call", nid |-> 44, lineno |-> 15,
                       func |-> <<[cls |-> "Attribute", nid |-> 45, lineno |-> 15,
                         value |-> <<[cls |-> "Name", nid |-> 46, lineno |-> 15, ctx |-> "Load", id |-> "f"]>>,
                         attr |-> "read"]>>,
                       args |-> <<>>, keywords |-> <<>>]>>,
                     keywords |-> <<>>]>>]>>,
                 handlers |-> <<
                  [cls |-> "ExceptHandler", nid |-> 47, lineno |-> 16, type |-> <<>>,
                   body |-> <<
                    [cls |-> "Pass", nid |-> 48, lineno |-> 17]>>]>>,
                 orelse |-> <<>>,
                 finalbody |-> <<
                  [cls |-> "Return", nid |-> 49, lineno |-> 19,
                   value |-> <<[cls |-> "Call", nid |-> 50, lineno |-> 19,
                     func |-> <<[cls |-> "Name", nid |-> 51, lineno |-> 19, ctx |-> "Load", id |-> "eval"]>>,
                     args |-> <<
                      [cls |-> "Name", nid |-> 52, lineno |-> 19, ctx |-> "Load", id |-> "path"]>>,
                     keywords |-> <<>>]>>]>>],
                [cls |-> "Expr", nid |-> 53, lineno |-> 20,
                 value |-> <<[cls |-> "Call", nid |-> 54, lineno |-> 20,
                   func |-> <<[cls |-> "Name", nid |-> 55, lineno |-> 20, ctx |-> "Load", id |-> "exec"]>>,
                   args |-> <<
                    [cls |-> "Name", nid |-> 56, lineno |-> 20, ctx |-> "Load", id |-> "path"]>>,
                   keywords |-> <<>>]>>]>>,
               decorator_list |-> <<>>, returns |-> <<>>],
              [cls |-> "FunctionDef", nid |-> 57, lineno |-> 22, end_lineno |-> 30, name |-> "fetch",
               args |-> <<[cls |-> "arguments", nid |-> 58, lineno |-> 0, posonlyargs |-> <<>>,
                 args |-> <<
                  [cls |-> "arg", nid |-> 59, lineno |-> 22, arg |-> "url", annotation |-> <<>>],
                  [cls |-> "arg", nid |-> 60, lineno |-> 22, arg |-> "retries", annotation |-> <<>>]>>,
                 vararg |-> <<>>, kwonlyargs |-> <<>>, kw_defaults |-> <<>>, kwarg |-> <<>>,
                 defaults |-> <<>>]>>,
               body |-> <<
                [cls |-> "Assign", nid |-> 61, lineno |-> 23,
                 targets |-> <<
                  [cls |-> "Name", nid |-> 62, lineno |-> 23, ctx |-> "Store", id |-> "id"]>>,
                 value |-> <<[cls |-> "List", nid |-> 63, lineno |-> 23, elts |-> <<>>]>>],
                [cls |-> "For", nid |-> 64, lineno |-> 24,
                 target |-> <<[cls |-> "Name", nid |-> 65, lineno |-> 24, ctx |-> "Store", id |-> "i"]>>,
                 iter |-> <<[cls |-> "Call", nid |-> 66, lineno |-> 24,
                   func |-> <<[cls |-> "Name", nid |-> 67, lineno |-> 24, ctx |-> "Load", id |-> "range"]>>,
                   args |-> <<
                    [cls |-> "Name", nid |-> 68, lineno |-> 24, ctx |-> "Load", id |-> "retries"]>>,
                   keywords |-> <<>>]>>,
                 body |-> <<
                  [cls |-> "Expr", nid |-> 69, lineno |-> 25,
                   value |-> <<[cls |-> "Call", nid |-> 70, lineno |-> 25,
                     func |-> <<[cls |-> "Attribute", nid |-> 71, lineno |-> 25,
                       value |-> <<[cls |-> "Name", nid |-> 72, lineno |-> 25, ctx |-> "Load", id |-> "id"]>>,
                       attr |-> "append"]>>,
                     args |-> <<
                      [cls |-> "Lambda", nid |-> 73, lineno |-> 25,
                       args |-> <<[cls |-> "arguments", nid |-> 74, lineno |-> 0, posonlyargs |-> <<>>, args |-> <<>>,
                         vararg |-> <<>>, kwonlyargs |-> <<>>, kw_defaults |-> <<>>, kwarg |-> <<>>,
                         defaults |-> <<>>]>>,
                       body |-> <<[cls |-> "Name", nid |-> 75, lineno |-> 25, ctx |-> "Load", id |-> "i"]>>]>>,
                     keywords |-> <<>>]>>]>>,
                 orelse |-> <<>>],
                [cls |-> "Assign", nid |-> 76, lineno |-> 26,
                 targets |-> <<
                  [cls |-> "Name", nid |-> 77, lineno |-> 26, ctx |-> "Store", id |-> "cfg"]>>,
                 value |-> <<[cls |-> "Call", nid |-> 78, lineno |-> 26,
                   func |-> <<[cls |-> "Attribute", nid |-> 79, lineno |-> 26,
                     value |-> <<[cls |-> "Name", nid |-> 80, lineno |-> 26, ctx |-> "Load", id |-> "yaml"]>>,
                     attr |-> "load"]>>,
                   args |-> <<
                    [cls |-> "Name", nid |-> 81, lineno |-> 26, ctx |-> "Load", id |-> "url"]>>,
                   keywords |-> <<>>]>>],
                [cls |-> "Expr", nid |-> 82, lineno |-> 27,
                 value |-> <<[cls |-> "Call", nid |-> 83, lineno |-> 27,
                   func |-> <<[cls |-> "Attribute", nid |-> 84, lineno |-> 27,
                     value |-> <<[cls |-> "Name", nid |-> 85, lineno |-> 27, ctx |-> "Load", id |-> "subprocess"]>>,
                     attr |-> "run"]>>,
                   args |-> <<
                    [cls |-> "Name", nid |-> 86, lineno |-> 27, ctx |-> "Load", id |-> "url"]>>,
                   keywords |-> <<
                    [cls |-> "keyword", nid |-> 87, lineno |-> 27, arg |-> "shell",
                     value |-> <<[cls |-> "Constant", nid |-> 88, lineno |-> 27, vtype |-> "bool", value |-> <<"T", "r", "u", "e">>]>>]>>]>>],
                [cls |-> "Expr", nid |-> 89, lineno |-> 28,
                 value |-> <<[cls |-> "Call", nid |-> 90, lineno |-> 28,
                   func |-> <<[cls |-> "Name", nid |-> 91, lineno |-> 28, ctx |-> "Load", id |-> "breakpoint"]>>,
                   args |-> <<>>, keywords |-> <<>>]>>],
                [cls |-> "Return", nid |-> 92, lineno |-> 29,
                 value |-> <<[cls |-> "Call", nid |-> 93, lineno |-> 29,
                   func |-> <<[cls |-> "Attribute", nid |-> 94, lineno |-> 29,
                     value |-> <<[cls |-> "Name", nid |-> 95, lineno |-> 29, ctx |-> "Load", id |-> "requests"]>>,
                     attr |-> "get"]>>,
                   args |-> <<
                    [cls |-> "Name", nid |-> 96, lineno |-> 29, ctx |-> "Load", id |-> "url"]>>,
                   keywords |-> <<>>]>>],
                [cls |-> "Assign", nid |-> 97, lineno |-> 30,
                 targets |-> <<
                  [cls |-> "Name", nid |-> 98, lineno |-> 30, ctx |-> "Store", id |-> "cfg"]>>,
                 value |-> <<[cls |-> "Constant", nid |-> 99, lineno |-> 30, vtype |-> "NoneType", value |-> <<"N", "o", "n", "e">>]>>]>>,
               decorator_list |-> <<>>, returns |-> <<>>]>>]]

\*   class Limits:
\*       low = 1 if DEBUG else 2
\*       high = low or 3
Src_class ==
    [valid |-> TRUE, pieces |-> <<13, 27, 19, 0>>,
     tree |-> [cls |-> "Module", nid |-> 1, lineno |-> 0,
             body |-> <<
              [cls |-> "ClassDef", nid |-> 2, lineno |-> 1, name |-> "Limits", bases |-> <<>>,
               keywords |-> <<>>,
               body |-> <<
                [cls |-> "Assign", nid |-> 3, lineno |-> 2,
                 targets |-> <<
                  [cls |-> "Name", nid |-> 4, lineno |-> 2, ctx |-> "Store", id |-> "low"]>>,
                 value |-> <<[cls |-> "IfExp", nid |-> 5, lineno |-> 2,
                   test |-> <<[cls |-> "Name", nid |-> 6, lineno |-> 2, ctx |-> "Load", id |-> "DEBUG"]>>,
                   body |-> <<[cls |-> "Constant", nid |-> 7, lineno |-> 2, vtype |-> "int", value |-> <<"1">>]>>,
                   orelse |-> <<[cls |-> "Constant", nid |-> 8, lineno |-> 2, vtype |-> "int", value |-> <<"2">>]>>]>>],
                [cls |-> "Assign", nid |-> 9, lineno |-> 3,
                 targets |-> <<
                  [cls |-> "Name", nid |-> 10, lineno |-> 3, ctx |-> "Store", id |-> "high"]>>,
                 value |-> <<[cls |-> "BoolOp", nid |-> 11, lineno |-> 3,
                   values |-> <<
                    [cls |-> "Name", nid |-> 12, lineno |-> 3, ctx |-> "Load", id |-> "low"],
                    [cls |-> "Constant", nid |-> 13, lineno |-> 3, vtype |-> "int", value |-> <<"3">>]>>]>>]>>,
               decorator_list |-> <<>>]>>]]

\*   class Stack:
\*       """A stack."""
\*   
\*       def push(self, item: int) -> None:
\*           """Push.
\*   
\*           Args: item
\*           """
\*           with open("log") as f:
\*               if item:
\*                   while item > 0:
\*                       item = item - 1
\*           self.items.append(item)
\*   
\*       def peek(self):
\*           """Peek."""
\*           return self.items[-1]
Src_methods ==
    [valid |-> TRUE, pieces |-> <<12, 18, 0, 38, 16, 0, 18, 11, 30, 20, 31, 35, 31, 0, 19, 19, 29, 0>>,
     tree |-> [cls |-> "Module", nid |-> 1, lineno |-> 0,
             body |-> <<
              [cls |-> "ClassDef", nid |-> 2, lineno |-> 1, name |-> "Stack", bases |-> <<>>,
               keywords |-> <<>>,
               body |-> <<
                [cls |-> "Expr", nid |-> 3, lineno |-> 2,
                 value |-> <<[cls |-> "Constant", nid |-> 4, lineno |-> 2, vtype |-> "str", value |-> <<"A", " ", "s", "t", "a", "c", "k", ".">>]>>],
                [cls |-> "FunctionDef", nid |-> 5, lineno |-> 4, end_lineno |-> 13, name |-> "push",
                 args |-> <<[cls |-> "arguments", nid |-> 6, lineno |-> 0, posonlyargs |-> <<>>,
                   args |-> <<
                    [cls |-> "arg", nid |-> 7, lineno |-> 4, arg |-> "self", annotation |-> <<>>],
                    [cls |-> "arg", nid |-> 8, lineno |-> 4, arg |-> "item",
                     annotation |-> <<[cls |-> "Name", nid |-> 9, lineno |-> 4, ctx |-> "Load", id |-> "int"]>>]>>,
                   vararg |-> <<>>, kwonlyargs |-> <<>>, kw_defaults |-> <<>>, kwarg |-> <<>>,
                   defaults |-> <<>>]>>,
                 body |-> <<
                  [cls |-> "Expr", nid |-> 10, lineno |-> 5,
                   value |-> <<[cls |-> "Constant", nid |-> 11, lineno |-> 5, vtype |-> "str", value |-> <<"P", "u", "s", "h", ".", "\n", "\n", " ", " ", " ", " ", " ", " ", " ", " ", "A", "r", "g", "s", ":", " ", "i", "t", "e", "m", "\n", " ", " ", " ", " ", " ", " ", " ", " ">>]>>],
                  [cls |-> "With", nid |-> 12, lineno |-> 9,
                   items |-> <<
                    [cls |-> "withitem", nid |-> 13, lineno |-> 0,
                     context_expr |-> <<[cls |-> "Call", nid |-> 14, lineno |-> 9,
                       func |-> <<[cls |-> "Name", nid |-> 15, lineno |-> 9, ctx |-> "Load", id |-> "open"]>>,
                       args |-> <<
                        [cls |-> "Constant", nid |-> 16, lineno |-> 9, vtype |-> "str", value |-> <<"l", "o", "g">>]>>,
                       keywords |-> <<>>]>>,
                     optional_vars |-> <<[cls |-> "Name", nid |-> 17, lineno |-> 9, ctx |-> "Store", id |-> "f"]>>]>>,
                   body |-> <<
                    [cls |-> "If", nid |-> 18, lineno |-> 10,
                     test |-> <<[cls |-> "Name", nid |-> 19, lineno |-> 10, ctx |-> "Load", id |-> "item"]>>,
                     body |-> <<
                      [cls |-> "While", nid |-> 20, lineno |-> 11,
                       test |-> <<[cls |-> "Compare", nid |-> 21, lineno |-> 11,
                         left |-> <<[cls |-> "Name", nid |-> 22, lineno |-> 11, ctx |-> "Load", id |-> "item"]>>,
                         comparators |-> <<
                          [cls |-> "Constant", nid |-> 23, lineno |-> 11, vtype |-> "int", value |-> <<"0">>]>>]>>,
                       body |-> <<
                        [cls |-> "Assign", nid |-> 24, lineno |-> 12,
                         targets |-> <<
                          [cls |-> "Name", nid |-> 25, lineno |-> 12, ctx |-> "Store", id |-> "item"]>>,
                         value |-> <<[cls |-> "BinOp", nid |-> 26, lineno |-> 12,
                           left |-> <<[cls |-> "Name", nid |-> 27, lineno |-> 12, ctx |-> "Load", id |-> "item"]>>,
                           right |-> <<[cls |-> "Constant", nid |-> 28, lineno |-> 12, vtype |-> "int", value |-> <<"1">>]>>]>>]>>,
                       orelse |-> <<>>]>>,
                     orelse |-> <<>>]>>],
                  [cls |-> "Expr", nid |-> 29, lineno |-> 13,
                   value |-> <<[cls |-> "Call", nid |-> 30, lineno |-> 13,
                     func |-> <<[cls |-> "Attribute", nid |-> 31, lineno |-> 13,
                       value |-> <<[cls |-> "Attribute", nid |-> 32, lineno |-> 13,
                         value |-> <<[cls |-> "Name", nid |-> 33, lineno |-> 13, ctx |-> "Load", id |-> "self"]>>,
                         attr |-> "items"]>>,
                       attr |-> "append"]>>,
                     args |-> <<
                      [cls |-> "Name", nid |-> 34, lineno |-> 13, ctx |-> "Load", id |-> "item"]>>,
                     keywords |-> <<>>]>>]>>,
                 decorator_list |-> <<>>,
                 returns |-> <<[cls |-> "Constant", nid |-> 35, lineno |-> 4, vtype |-> "NoneType", value |-> <<"N", "o", "n", "e">>]>>],
                [cls |-> "FunctionDef", nid |-> 36, lineno |-> 15, end_lineno |-> 17, name |-> "peek",
                 args |-> <<[cls |-> "arguments", nid |-> 37, lineno |-> 0, posonlyargs |-> <<>>,
                   args |-> <<
                    [cls |-> "arg", nid |-> 38, lineno |-> 15, arg |-> "self", annotation |-> <<>>]>>,
                   vararg |-> <<>>, kwonlyargs |-> <<>>, kw_defaults |-> <<>>, kwarg |-> <<>>,
                   defaults |-> <<>>]>>,
                 body |-> <<
                  [cls |-> "Expr", nid |-> 39, lineno |-> 16,
                   value |-> <<[cls |-> "Constant", nid |-> 40, lineno |-> 16, vtype |-> "str", value |-> <<"P", "e", "e", "k", ".">>]>>],
                  [cls |-> "Return", nid |-> 41, lineno |-> 17,
                   value |-> <<[cls |-> "Subscript", nid |-> 42, lineno |-> 17,
                     value |-> <<[cls |-> "Attribute", nid |-> 43, lineno |-> 17,
                       value |-> <<[cls |-> "Name", nid |-> 44, lineno |-> 17, ctx |-> "Load", id |-> "self"]>>,
                       attr |-> "items"]>>,
                     slice |-> <<[cls |-> "UnaryOp", nid |-> 45, lineno |-> 17,
                       operand |-> <<[cls |-> "Constant", nid |-> 46, lineno |-> 17, vtype |-> "int", value |-> <<"1">>]>>]>>]>>]>>,
                 decorator_list |-> <<>>, returns |-> <<>>]>>,
               decorator_list |-> <<>>]>>]]

\*   def cube(n):
\*       for i in n:
\*           for j in n:
\*               for k in n:
\*                   pass
Src_cube ==
    [valid |-> TRUE, pieces |-> <<12, 15, 19, 23, 20>>,
     tree |-> [cls |-> "Module", nid |-> 1, lineno |-> 0,
             body |-> <<
              [cls |-> "FunctionDef", nid |-> 2, lineno |-> 1, end_lineno |-> 5, name |-> "cube",
               args |-> <<[cls |-> "arguments", nid |-> 3, lineno |-> 0, posonlyargs |-> <<>>,
                 args |-> <<
                  [cls |-> "arg", nid |-> 4, lineno |-> 1, arg |-> "n", annotation |-> <<>>]>>,
                 vararg |-> <<>>, kwonlyargs |-> <<>>, kw_defaults |-> <<>>, kwarg |-> <<>>,
                 defaults |-> <<>>]>>,
               body |-> <<
                [cls |-> "For", nid |-> 5, lineno |-> 2,
                 target |-> <<[cls |-> "Name", nid |-> 6, lineno |-> 2, ctx |-> "Store", id |-> "i"]>>,
                 iter |-> <<[cls |-> "Name", nid |-> 7, lineno |-> 2, ctx |-> "Load", id |-> "n"]>>,
                 body |-> <<
                  [cls |-> "For", nid |-> 8, lineno |-> 3,
                   target |-> <<[cls |-> "Name", nid |-> 9, lineno |-> 3, ctx |-> "Store", id |-> "j"]>>,
                   iter |-> <<[cls |-> "Name", nid |-> 10, lineno |-> 3, ctx |-> "Load", id |-> "n"]>>,
                   body |-> <<
                    [cls |-> "For", nid |-> 11, lineno |-> 4,
                     target |-> <<[cls |-> "Name", nid |-> 12, lineno |-> 4, ctx |-> "Store", id |-> "k"]>>,
                     iter |-> <<[cls |-> "Name", nid |-> 13, lineno |-> 4, ctx |-> "Load", id |-> "n"]>>,
                     body |-> <<
                      [cls |-> "Pass", nid |-> 14, lineno |-> 5]>>,
                     orelse |-> <<>>]>>,
                   orelse |-> <<>>]>>,
                 orelse |-> <<>>]>>,
               decorator_list |-> <<>>, returns |-> <<>>]>>]]

\*   x = 1
\*   y = 2
Src_pair ==
    [valid |-> TRUE, pieces |-> <<5, 5>>,
     tree |-> [cls |-> "Module", nid |-> 1, lineno |-> 0,
             body |-> <<
              [cls |-> "Assign", nid |-> 2, lineno |-> 1,
               targets |-> <<
                [cls |-> "Name", nid |-> 3, lineno |-> 1, ctx |-> "Store", id |-> "x"]>>,
               value |-> <<[cls |-> "Constant", nid |-> 4, lineno |-> 1, vtype |-> "int", value |-> <<"1">>]>>],
              [cls |-> "Assign", nid |-> 5, lineno |-> 2,
               targets |-> <<
                [cls |-> "Name", nid |-> 6, lineno |-> 2, ctx |-> "Store", id |-> "y"]>>,
               value |-> <<[cls |-> "Constant", nid |-> 7, lineno |-> 2, vtype |-> "int", value |-> <<"2">>]>>]>>]]

\*   def scan(grid, limit):
\*       for a in grid:
\*           for b in a:
\*               while b and limit:
\*                   for c in b:
\*                       if c:
\*                           break
\*                       continue
\*       done = grid or limit
\*       return done
Src_scan ==
    [valid |-> TRUE, pieces |-> <<22, 18, 19, 30, 27, 25, 29, 28, 24, 15, 0>>,
     tree |-> [cls |-> "Module", nid |-> 1, lineno |-> 0,
             body |-> <<
              [cls |-> "FunctionDef", nid |-> 2, lineno |-> 1, end_lineno |-> 10, name |-> "scan",
               args |-> <<[cls |-> "arguments", nid |-> 3, lineno |-> 0, posonlyargs |-> <<>>,
                 args |-> <<
                  [cls |-> "arg", nid |-> 4, lineno |-> 1, arg |-> "grid", annotation |-> <<>>],
                  [cls |-> "arg", nid |-> 5, lineno |-> 1, arg |-> "limit", annotation |-> <<>>]>>,
                 vararg |-> <<>>, kwonlyargs |-> <<>>, kw_defaults |-> <<>>, kwarg |-> <<>>,
                 defaults |-> <<>>]>>,
               body |-> <<
                [cls |-> "For", nid |-> 6, lineno |-> 2,
                 target |-> <<[cls |-> "Name", nid |-> 7, lineno |-> 2, ctx |-> "Store", id |-> "a"]>>,
                 iter |-> <<[cls |-> "Name", nid |-> 8, lineno |-> 2, ctx |-> "Load", id |-> "grid"]>>,
                 body |-> <<
                  [cls |-> "For", nid |-> 9, lineno |-> 3,
                   target |-> <<[cls |-> "Name", nid |-> 10, lineno |-> 3, ctx |-> "Store", id |-> "b"]>>,
                   iter |-> <<[cls |-> "Name", nid |-> 11, lineno |-> 3, ctx |-> "Load", id |-> "a"]>>,
                   body |-> <<
                    [cls |-> "While", nid |-> 12, lineno |-> 4,
                     test |-> <<[cls |-> "BoolOp", nid |-> 13, lineno |-> 4,
                       values |-> <<
                        [cls |-> "Name", nid |-> 14, lineno |-> 4, ctx |-> "Load", id |-> "b"],
                        [cls |-> "Name", nid |-> 15, lineno |-> 4, ctx |-> "Load", id |-> "limit"]>>]>>,
                     body |-> <<
                      [cls |-> "For", nid |-> 16, lineno |-> 5,
                       target |-> <<[cls |-> "Name", nid |-> 17, lineno |-> 5, ctx |-> "Store", id |-> "c"]>>,
                       iter |-> <<[cls |-> "Name", nid |-> 18, lineno |-> 5, ctx |-> "Load", id |-> "b"]>>,
                       body |-> <<
                        [cls |-> "If", nid |-> 19, lineno |-> 6,
                         test |-> <<[cls |-> "Name", nid |-> 20, lineno |-> 6, ctx |-> "Load", id |-> "c"]>>,
                         body |-> <<
                          [cls |-> "Break", nid |-> 21, lineno |-> 7]>>,
                         orelse |-> <<>>],
                        [cls |-> "Continue", nid |-> 22, lineno |-> 8]>>,
                       orelse |-> <<>>]>>,
                     orelse |-> <<>>]>>,
                   orelse |-> <<>>]>>,
                 orelse |-> <<>>],
                [cls |-> "Assign", nid |-> 23, lineno |-> 9,
                 targets |-> <<
                  [cls |-> "Name", nid |-> 24, lineno |-> 9, ctx |-> "Store", id |-> "done"]>>,
                 value |-> <<[cls |-> "BoolOp", nid |-> 25, lineno |-> 9,
                   values |-> <<
                    [cls |-> "Name", nid |-> 26, lineno |-> 9, ctx |-> "Load", id |-> "grid"],
                    [cls |-> "Name", nid |-> 27, lineno |-> 9, ctx |-> "Load", id |-> "limit"]>>]>>],
                [cls |-> "Return", nid |-> 28, lineno |-> 10,
                 value |-> <<[cls |-> "Name", nid |-> 29, lineno |-> 10, ctx |-> "Load", id |-> "done"]>>]>>,
               decorator_list |-> <<>>, returns |-> <<>>]>>]]

\*   def route(kind, items):
\*       if kind:
\*           for item in items:
\*               if item:
\*                   return 1
\*               elif kind > 1:
\*                   return 2
\*               else:
\*                   return 3
\*       try:
\*           return items[0]
\*       except KeyError:
\*           if kind:
\*               return 4
\*       def inner(x):
\*           if x:
\*               return lambda y: y
\*           return 5
\*       return inner
Src_chain ==
    [valid |-> TRUE, pieces |-> <<23, 12, 26, 20, 24, 26, 24, 17, 24, 8, 23, 20, 16, 20, 17, 13, 30, 16, 16, 0>>,
     tree |-> [cls |-> "Module", nid |-> 1, lineno |-> 0,
             body |-> <<
              [cls |-> "FunctionDef", nid |-> 2, lineno |-> 1, end_lineno |-> 19, name |-> "route",
               args |-> <<[cls |-> "arguments", nid |-> 3, lineno |-> 0, posonlyargs |-> <<>>,
                 args |-> <<
                  [cls |-> "arg", nid |-> 4, lineno |-> 1, arg |-> "kind", annotation |-> <<>>],
                  [cls |-> "arg", nid |-> 5, lineno |-> 1, arg |-> "items", annotation |-> <<>>]>>,
                 vararg |-> <<>>, kwonlyargs |-> <<>>, kw_defaults |-> <<>>, kwarg |-> <<>>,
                 defaults |-> <<>>]>>,
               body |-> <<
                [cls |-> "If", nid |-> 6, lineno |-> 2,
                 test |-> <<[cls |-> "Name", nid |-> 7, lineno |-> 2, ctx |-> "Load", id |-> "kind"]>>,
                 body |-> <<
                  [cls |-> "For", nid |-> 8, lineno |-> 3,
                   target |-> <<[cls |-> "Name", nid |-> 9, lineno |-> 3, ctx |-> "Store", id |-> "item"]>>,
                   iter |-> <<[cls |-> "Name", nid |-> 10, lineno |-> 3, ctx |-> "Load", id |-> "items"]>>,
                   body |-> <<
                    [cls |-> "If", nid |-> 11, lineno |-> 4,
                     test |-> <<[cls |-> "Name", nid |-> 12, lineno |-> 4, ctx |-> "Load", id |-> "item"]>>,
                     body |-> <<
                      [cls |-> "Return", nid |-> 13, lineno |-> 5,
                       value |-> <<[cls |-> "Constant", nid |-> 14, lineno |-> 5, vtype |-> "int", value |-> <<"1">>]>>]>>,
                     orelse |-> <<
                      [cls |-> "If", nid |-> 15, lineno |-> 6,
                       test |-> <<[cls |-> "Compare", nid |-> 16, lineno |-> 6,
                         left |-> <<[cls |-> "Name", nid |-> 17, lineno |-> 6, ctx |-> "Load", id |-> "kind"]>>,
                         comparators |-> <<
                          [cls |-> "Constant", nid |-> 18, lineno |-> 6, vtype |-> "int", value |-> <<"1">>]>>]>>,
                       body |-> <<
                        [cls |-> "Return", nid |-> 19, lineno |-> 7,
                         value |-> <<[cls |-> "Constant", nid |-> 20, lineno |-> 7, vtype |-> "int", value |-> <<"2">>]>>]>>,
                       orelse |-> <<
                        [cls |-> "Return", nid |-> 21, lineno |-> 9,
                         value |-> <<[cls |-> "Constant", nid |-> 22, lineno |-> 9, vtype |-> "int", value |-> <<"3">>]>>]>>]>>]>>,
                   orelse |-> <<>>]>>,
                 orelse |-> <<>>],
                [cls |-> "Try", nid |-> 23, lineno |-> 10,
                 body |-> <<
                  [cls |-> "Return", nid |-> 24, lineno |-> 11,
                   value |-> <<[cls |-> "Subscript", nid |-> 25, lineno |-> 11,
                     value |-> <<[cls |-> "Name", nid |-> 26, lineno |-> 11, ctx |-> "Load", id |-> "items"]>>,
                     slice |-> <<[cls |-> "Constant", nid |-> 27, lineno |-> 11, vtype |-> "int", value |-> <<"0">>]>>]>>]>>,
                 handlers |-> <<
                  [cls |-> "ExceptHandler", nid |-> 28, lineno |-> 12,
                   type |-> <<[cls |-> "Name", nid |-> 29, lineno |-> 12, ctx |-> "Load", id |-> "KeyError"]>>,
                   body |-> <<
                    [cls |-> "If", nid |-> 30, lineno |-> 13,
                     test |-> <<[cls |-> "Name", nid |-> 31, lineno |-> 13, ctx |-> "Load", id |-> "kind"]>>,
                     body |-> <<
                      [cls |-> "Return", nid |-> 32, lineno |-> 14,
                       value |-> <<[cls |-> "Constant", nid |-> 33, lineno |-> 14, vtype |-> "int", value |-> <<"4">>]>>]>>,
                     orelse |-> <<>>]>>]>>,
                 orelse |-> <<>>, finalbody |-> <<>>],
                [cls |-> "FunctionDef", nid |-> 34, lineno |-> 15, end_lineno |-> 18, name |-> "inner",
                 args |-> <<[cls |-> "arguments", nid |-> 35, lineno |-> 0, posonlyargs |-> <<>>,
                   args |-> <<
                    [cls |-> "arg", nid |-> 36, lineno |-> 15, arg |-> "x", annotation |-> <<>>]>>,
                   vararg |-> <<>>, kwonlyargs |-> <<>>, kw_defaults |-> <<>>, kwarg |-> <<>>,
                   defaults |-> <<>>]>>,
                 body |-> <<
                  [cls |-> "If", nid |-> 37, lineno |-> 16,
                   test |-> <<[cls |-> "Name", nid |-> 38, lineno |-> 16, ctx |-> "Load", id |-> "x"]>>,
                   body |-> <<
                    [cls |-> "Return", nid |-> 39, lineno |-> 17,
                     value |-> <<[cls |-> "Lambda", nid |-> 40, lineno |-> 17,
                       args |-> <<[cls |-> "arguments", nid |-> 41, lineno |-> 0, posonlyargs |-> <<>>,
                         args |-> <<
                          [cls |-> "arg", nid |-> 42, lineno |-> 17, arg |-> "y", annotation |-> <<>>]>>,
                         vararg |-> <<>>, kwonlyargs |-> <<>>, kw_defaults |-> <<>>, kwarg |-> <<>>,
                         defaults |-> <<>>]>>,
                       body |-> <<[cls |-> "Name", nid |-> 43, lineno |-> 17, ctx |-> "Load", id |-> "y"]>>]>>]>>,
                   orelse |-> <<>>],
                  [cls |-> "Return", nid |-> 44, lineno |-> 18,
                   value |-> <<[cls |-> "Constant", nid |-> 45, lineno |-> 18, vtype |-> "int", value |-> <<"5">>]>>]>>,
                 decorator_list |-> <<>>, returns |-> <<>>],
                [cls |-> "Return", nid |-> 46, lineno |-> 19,
                 value |-> <<[cls |-> "Name", nid |-> 47, lineno |-> 19, ctx |-> "Load", id |-> "inner"]>>]>>,
               decorator_list |-> <<>>, returns |-> <<>>]>>]]

\*   def flow(items, flag):
\*       for item in items:
\*           if item:
\*               continue
\*               flag = 0
\*           else:
\*               break
\*       else:
\*           raise ValueError
\*           flag = 1
\*       try:
\*           return items
\*       except KeyError:
\*           if flag:
\*               with flag:
\*                   while items:
\*                       return 1
\*                       raise KeyError
\*                       flag = 2
\*       finally:
\*           return 2
\*           flag = 3
\*       return flag
Src_flow ==
    [valid |-> TRUE, pieces |-> <<22, 22, 16, 20, 20, 13, 17, 9, 24, 16, 8, 20, 20, 16, 22, 28, 28, 34, 28, 12, 16, 16, 15, 0>>,
     tree |-> [cls |-> "Module", nid |-> 1, lineno |-> 0,
             body |-> <<
              [cls |-> "FunctionDef", nid |-> 2, lineno |-> 1, end_lineno |-> 23, name |-> "flow",
               args |-> <<[cls |-> "arguments", nid |-> 3, lineno |-> 0, posonlyargs |-> <<>>,
                 args |-> <<
                  [cls |-> "arg", nid |-> 4, lineno |-> 1, arg |-> "items", annotation |-> <<>>],
                  [cls |-> "arg", nid |-> 5, lineno |-> 1, arg |-> "flag", annotation |-> <<>>]>>,
                 vararg |-> <<>>, kwonlyargs |-> <<>>, kw_defaults |-> <<>>, kwarg |-> <<>>,
                 defaults |-> <<>>]>>,
               body |-> <<
                [cls |-> "For", nid |-> 6, lineno |-> 2,
                 target |-> <<[cls |-> "Name", nid |-> 7, lineno |-> 2, ctx |-> "Store", id |-> "item"]>>,
                 iter |-> <<[cls |-> "Name", nid |-> 8, lineno |-> 2, ctx |-> "Load", id |-> "items"]>>,
                 body |-> <<
                  [cls |-> "If", nid |-> 9, lineno |-> 3,
                   test |-> <<[cls |-> "Name", nid |-> 10, lineno |-> 3, ctx |-> "Load", id |-> "item"]>>,
                   body |-> <<
                    [cls |-> "Continue", nid |-> 11, lineno |-> 4],
                    [cls |-> "Assign", nid |-> 12, lineno |-> 5,
                     targets |-> <<
                      [cls |-> "Name", nid |-> 13, lineno |-> 5, ctx |-> "Store", id |-> "flag"]>>,
                     value |-> <<[cls |-> "Constant", nid |-> 14, lineno |-> 5, vtype |-> "int", value |-> <<"0">>]>>]>>,
                   orelse |-> <<
                    [cls |-> "Break", nid |-> 15, lineno |-> 7]>>]>>,
                 orelse |-> <<
                  [cls |-> "Raise", nid |-> 16, lineno |-> 9,
                   exc |-> <<[cls |-> "Name", nid |-> 17, lineno |-> 9, ctx |-> "Load", id |-> "ValueError"]>>,
                   cause |-> <<>>],
                  [cls |-> "Assign", nid |-> 18, lineno |-> 10,
                   targets |-> <<
                    [cls |-> "Name", nid |-> 19, lineno |-> 10, ctx |-> "Store", id |-> "flag"]>>,
                   value |-> <<[cls |-> "Constant", nid |-> 20, lineno |-> 10, vtype |-> "int", value |-> <<"1">>]>>]>>],
                [cls |-> "Try", nid |-> 21, lineno |-> 11,
                 body |-> <<
                  [cls |-> "Return", nid |-> 22, lineno |-> 12,
                   value |-> <<[cls |-> "Name", nid |-> 23, lineno |-> 12, ctx |-> "Load", id |-> "items"]>>]>>,
                 handlers |-> <<
                  [cls |-> "ExceptHandler", nid |-> 24, lineno |-> 13,
                   type |-> <<[cls |-> "Name", nid |-> 25, lineno |-> 13, ctx |-> "Load", id |-> "KeyError"]>>,
                   body |-> <<
                    [cls |-> "If", nid |-> 26, lineno |-> 14,
                     test |-> <<[cls |-> "Name", nid |-> 27, lineno |-> 14, ctx |-> "Load", id |-> "flag"]>>,
                     body |-> <<
                      [cls |-> "With", nid |-> 28, lineno |-> 15,
                       items |-> <<
                        [cls |-> "withitem", nid |-> 29, lineno |-> 0,
                         context_expr |-> <<[cls |-> "Name", nid |-> 30, lineno |-> 15, ctx |-> "Load", id |-> "flag"]>>,
                         optional_vars |-> <<>>]>>,
                       body |-> <<
                        [cls |-> "While", nid |-> 31, lineno |-> 16,
                         test |-> <<[cls |-> "Name", nid |-> 32, lineno |-> 16, ctx |-> "Load", id |-> "items"]>>,
                         body |-> <<
                          [cls |-> "Return", nid |-> 33, lineno |-> 17,
                           value |-> <<[cls |-> "Constant", nid |-> 34, lineno |-> 17, vtype |-> "int", value |-> <<"1">>]>>],
                          [cls |-> "Raise", nid |-> 35, lineno |-> 18,
                           exc |-> <<[cls |-> "Name", nid |-> 36, lineno |-> 18, ctx |-> "Load", id |-> "KeyError"]>>,
                           cause |-> <<>>],
                          [cls |-> "Assign", nid |-> 37, lineno |-> 19,
                           targets |-> <<
                            [cls |-> "Name", nid |-> 38, lineno |-> 19, ctx |-> "Store", id |-> "flag"]>>,
                           value |-> <<[cls |-> "Constant", nid |-> 39, lineno |-> 19, vtype |-> "int", value |-> <<"2">>]>>]>>,
                         orelse |-> <<>>]>>]>>,
                     orelse |-> <<>>]>>]>>,
                 orelse |-> <<>>,
                 finalbody |-> <<
                  [cls |-> "Return", nid |-> 40, lineno |-> 21,
                   value |-> <<[cls |-> "Constant", nid |-> 41, lineno |-> 21, vtype |-> "int", value |-> <<"2">>]>>],
                  [cls |-> "Assign", nid |-> 42, lineno |-> 22,
                   targets |-> <<
                    [cls |-> "Name", nid |-> 43, lineno |-> 22, ctx |-> "Store", id |-> "flag"]>>,
                   value |-> <<[cls |-> "Constant", nid |-> 44, lineno |-> 22, vtype |-> "int", value |-> <<"3">>]>>]>>],
                [cls |-> "Return", nid |-> 45, lineno |-> 23,
                 value |-> <<[cls |-> "Name", nid |-> 46, lineno |-> 23, ctx |-> "Load", id |-> "flag"]>>]>>,
               decorator_list |-> <<>>, returns |-> <<>>]>>]]

\*   class Registry:
\*       """Registry."""
\*   
\*       def add(self, *, tags=[], seen=set()):
\*           """Add."""
\*           table = {
\*               "a": 1,
\*               "b": 2,
\*               "a": 3,
\*               tags: 4,
\*               tags: 5,
\*               **seen,
\*               "a": {"a": 6},
\*               1: 7,
\*               True: 8,
\*           }
\*           return
\*   
\*       def make(self, opts, more=list(), last=[], also={}):
\*           """Make.
\*   
\*           Args: opts
\*           """
\*           for i, (j, k) in opts:
\*               more.append(lambda: i)
\*               more.append(lambda i=i: i)
\*               more.append(lambda *, j=j: j)
\*               def later(k=k):
\*                   return k
\*   
\*   def one(value, opts=tuple(), extra=dataclasses.field()):
\*       """One."""
Src_registry ==
    [valid |-> TRUE, pieces |-> <<15, 19, 0, 42, 18, 17, 19, 19, 19, 20, 20, 19, 26, 17, 20, 9, 14, 0, 56, 16, 0, 18, 11, 30, 34, 38, 41, 27, 24, 0, 56, 14, 0>>,
     tree |-> [cls |-> "Module", nid |-> 1, lineno |-> 0,
             body |-> <<
              [cls |-> "ClassDef", nid |-> 2, lineno |-> 1, name |-> "Registry", bases |-> <<>>,
               keywords |-> <<>>,
               body |-> <<
                [cls |-> "Expr", nid |-> 3, lineno |-> 2,
                 value |-> <<[cls |-> "Constant", nid |-> 4, lineno |-> 2, vtype |-> "str", value |-> <<"R", "e", "g", "i", "s", "t", "r", "y", ".">>]>>],
                [cls |-> "FunctionDef", nid |-> 5, lineno |-> 4, end_lineno |-> 17, name |-> "add",
                 args |-> <<[cls |-> "arguments", nid |-> 6, lineno |-> 0, posonlyargs |-> <<>>,
                   args |-> <<
                    [cls |-> "arg", nid |-> 7, lineno |-> 4, arg |-> "self", annotation |-> <<>>]>>,
                   vararg |-> <<>>,
                   kwonlyargs |-> <<
                    [cls |-> "arg", nid |-> 8, lineno |-> 4, arg |-> "tags", annotation |-> <<>>],
                    [cls |-> "arg", nid |-> 9, lineno |-> 4, arg |-> "seen", annotation |-> <<>>]>>,
                   kw_defaults |-> <<
                    [cls |-> "List", nid |-> 10, lineno |-> 4, elts |-> <<>>],
                    [cls |-> "Call", nid |-> 11, lineno |-> 4,
                     func |-> <<[cls |-> "Name", nid |-> 12, lineno |-> 4, ctx |-> "Load", id |-> "set"]>>,
                     args |-> <<>>, keywords |-> <<>>]>>,
                   kwarg |-> <<>>, defaults |-> <<>>]>>,
                 body |-> <<
                  [cls |-> "Expr", nid |-> 13, lineno |-> 5,
                   value |-> <<[cls |-> "Constant", nid |-> 14, lineno |-> 5, vtype |-> "str", value |-> <<"A", "d", "d", ".">>]>>],
                  [cls |-> "Assign", nid |-> 15, lineno |-> 6,
                   targets |-> <<
                    [cls |-> "Name", nid |-> 16, lineno |-> 6, ctx |-> "Store", id |-> "table"]>>,
                   value |-> <<[cls |-> "Dict", nid |-> 17, lineno |-> 6,
                     keys |-> <<
                      [cls |-> "Constant", nid |-> 18, lineno |-> 7, vtype |-> "str", value |-> <<"a">>],
                      [cls |-> "Constant", nid |-> 19, lineno |-> 8, vtype |-> "str", value |-> <<"b">>],
                      [cls |-> "Constant", nid |-> 20, lineno |-> 9, vtype |-> "str", value |-> <<"a">>],
                      [cls |-> "Name", nid |-> 21, lineno |-> 10, ctx |-> "Load", id |-> "tags"],
                      [cls |-> "Name", nid |-> 22, lineno |-> 11, ctx |-> "Load", id |-> "tags"],
                      [cls |-> "NoneType"],
                      [cls |-> "Constant", nid |-> 23, lineno |-> 13, vtype |-> "str", value |-> <<"a">>],
                      [cls |-> "Constant", nid |-> 24, lineno |-> 14, vtype |-> "int", value |-> <<"1">>],
                      [cls |-> "Constant", nid |-> 25, lineno |-> 15, vtype |-> "bool", value |-> <<"T", "r", "u", "e">>]>>,
                     values |-> <<
                      [cls |-> "Constant", nid |-> 26, lineno |-> 7, vtype |-> "int", value |-> <<"1">>],
                      [cls |-> "Constant", nid |-> 27, lineno |-> 8, vtype |-> "int", value |-> <<"2">>],
                      [cls |-> "Constant", nid |-> 28, lineno |-> 9, vtype |-> "int", value |-> <<"3">>],
                      [cls |-> "Constant", nid |-> 29, lineno |-> 10, vtype |-> "int", value |-> <<"4">>],
                      [cls |-> "Constant", nid |-> 30, lineno |-> 11, vtype |-> "int", value |-> <<"5">>],
                      [cls |-> "Name", nid |-> 31, lineno |-> 12, ctx |-> "Load", id |-> "seen"],
                      [cls |-> "Dict", nid |-> 32, lineno |-> 13,
                       keys |-> <<
                        [cls |-> "Constant", nid |-> 33, lineno |-> 13, vtype |-> "str", value |-> <<"a">>]>>,
                       values |-> <<
                        [cls |-> "Constant", nid |-> 34, lineno |-> 13, vtype |-> "int", value |-> <<"6">>]>>],
                      [cls |-> "Constant", nid |-> 35, lineno |-> 14, vtype |-> "int", value |-> <<"7">>],
                      [cls |-> "Constant", nid |-> 36, lineno |-> 15, vtype |-> "int", value |-> <<"8">>]>>]>>],
                  [cls |-> "Return", nid |-> 37, lineno |-> 17, value |-> <<>>]>>,
                 decorator_list |-> <<>>, returns |-> <<>>],
                [cls |-> "FunctionDef", nid |-> 38, lineno |-> 19, end_lineno |-> 29, name |-> "make",
                 args |-> <<[cls |-> "arguments", nid |-> 39, lineno |-> 0, posonlyargs |-> <<>>,
                   args |-> <<
                    [cls |-> "arg", nid |-> 40, lineno |-> 19, arg |-> "self", annotation |-> <<>>],
                    [cls |-> "arg", nid |-> 41, lineno |-> 19, arg |-> "opts", annotation |-> <<>>],
                    [cls |-> "arg", nid |-> 42, lineno |-> 19, arg |-> "more", annotation |-> <<>>],
                    [cls |-> "arg", nid |-> 43, lineno |-> 19, arg |-> "last", annotation |-> <<>>],
                    [cls |-> "arg", nid |-> 44, lineno |-> 19, arg |-> "also", annotation |-> <<>>]>>,
                   vararg |-> <<>>, kwonlyargs |-> <<>>, kw_defaults |-> <<>>, kwarg |-> <<>>,
                   defaults |-> <<
                    [cls |-> "Call", nid |-> 45, lineno |-> 19,
                     func |-> <<[cls |-> "Name", nid |-> 46, lineno |-> 19, ctx |-> "Load", id |-> "list"]>>,
                     args |-> <<>>, keywords |-> <<>>],
                    [cls |-> "List", nid |-> 47, lineno |-> 19, elts |-> <<>>],
                    [cls |-> "Dict", nid |-> 48, lineno |-> 19, keys |-> <<>>, values |-> <<>>]>>]>>,
                 body |-> <<
                  [cls |-> "Expr", nid |-> 49, lineno |-> 20,
                   value |-> <<[cls |-> "Constant", nid |-> 50, lineno |-> 20, vtype |-> "str", value |-> <<"M", "a", "k", "e", ".", "\n", "\n", " ", " ", " ", " ", " ", " ", " ", " ", "A", "r", "g", "s", ":", " ", "o", "p", "t", "s", "\n", " ", " ", " ", " ", " ", " ", " ", " ">>]>>],
                  [cls |-> "For", nid |-> 51, lineno |-> 24,
                   target |-> <<[cls |-> "Tuple", nid |-> 52, lineno |-> 24,
                     elts |-> <<
                      [cls |-> "Name", nid |-> 53, lineno |-> 24, ctx |-> "Store", id |-> "i"],
                      [cls |-> "Tuple", nid |-> 54, lineno |-> 24,
                       elts |-> <<
                        [cls |-> "Name", nid |-> 55, lineno |-> 24, ctx |-> "Store", id |-> "j"],
                        [cls |-> "Name", nid |-> 56, lineno |-> 24, ctx |-> "Store", id |-> "k"]>>]>>]>>,
                   iter |-> <<[cls |-> "Name", nid |-> 57, lineno |-> 24, ctx |-> "Load", id |-> "opts"]>>,
                   body |-> <<
                    [cls |-> "Expr", nid |-> 58, lineno |-> 25,
                     value |-> <<[cls |-> "Call", nid |-> 59, lineno |-> 25,
                       func |-> <<[cls |-> "Attribute", nid |-> 60, lineno |-> 25,
                         value |-> <<[cls |-> "Name", nid |-> 61, lineno |-> 25, ctx |-> "Load", id |-> "more"]>>,
                         attr |-> "append"]>>,
                       args |-> <<
                        [cls |-> "Lambda", nid |-> 62, lineno |-> 25,
                         args |-> <<[cls |-> "arguments", nid |-> 63, lineno |-> 0, posonlyargs |-> <<>>, args |-> <<>>,
                           vararg |-> <<>>, kwonlyargs |-> <<>>, kw_defaults |-> <<>>, kwarg |-> <<>>,
                           defaults |-> <<>>]>>,
                         body |-> <<[cls |-> "Name", nid |-> 64, lineno |-> 25, ctx |-> "Load", id |-> "i"]>>]>>,
                       keywords |-> <<>>]>>],
                    [cls |-> "Expr", nid |-> 65, lineno |-> 26,
                     value |-> <<[cls |-> "Call", nid |-> 66, lineno |-> 26,
                       func |-> <<[cls |-> "Attribute", nid |-> 67, lineno |-> 26,
                         value |-> <<[cls |-> "Name", nid |-> 68, lineno |-> 26, ctx |-> "Load", id |-> "more"]>>,
                         attr |-> "append"]>>,
                       args |-> <<
                        [cls |-> "Lambda", nid |-> 69, lineno |-> 26,
                         args |-> <<[cls |-> "arguments", nid |-> 70, lineno |-> 0, posonlyargs |-> <<>>,
                           args |-> <<
                            [cls |-> "arg", nid |-> 71, lineno |-> 26, arg |-> "i", annotation |-> <<>>]>>,
                           vararg |-> <<>>, kwonlyargs |-> <<>>, kw_defaults |-> <<>>, kwarg |-> <<>>,
                           defaults |-> <<
                            [cls |-> "Name", nid |-> 72, lineno |-> 26, ctx |-> "Load", id |-> "i"]>>]>>,
                         body |-> <<[cls |-> "Name", nid |-> 73, lineno |-> 26, ctx |-> "Load", id |-> "i"]>>]>>,
                       keywords |-> <<>>]>>],
                    [cls |-> "Expr", nid |-> 74, lineno |-> 27,
                     value |-> <<[cls |-> "Call", nid |-> 75, lineno |-> 27,
                       func |-> <<[cls |-> "Attribute", nid |-> 76, lineno |-> 27,
                         value |-> <<[cls |-> "Name", nid |-> 77, lineno |-> 27, ctx |-> "Load", id |-> "more"]>>,
                         attr |-> "append"]>>,
                       args |-> <<
                        [cls |-> "Lambda", nid |-> 78, lineno |-> 27,
                         args |-> <<[cls |-> "arguments", nid |-> 79, lineno |-> 0, posonlyargs |-> <<>>, args |-> <<>>,
                           vararg |-> <<>>,
                           kwonlyargs |-> <<
                            [cls |-> "arg", nid |-> 80, lineno |-> 27, arg |-> "j", annotation |-> <<>>]>>,
                           kw_defaults |-> <<
                            [cls |-> "Name", nid |-> 81, lineno |-> 27, ctx |-> "Load", id |-> "j"]>>,
                           kwarg |-> <<>>, defaults |-> <<>>]>>,
                         body |-> <<[cls |-> "Name", nid |-> 82, lineno |-> 27, ctx |-> "Load", id |-> "j"]>>]>>,
                       keywords |-> <<>>]>>],
                    [cls |-> "FunctionDef", nid |-> 83, lineno |-> 28, end_lineno |-> 29, name |-> "later",
                     args |-> <<[cls |-> "arguments", nid |-> 84, lineno |-> 0, posonlyargs |-> <<>>,
                       args |-> <<
                        [cls |-> "arg", nid |-> 85, lineno |-> 28, arg |-> "k", annotation |-> <<>>]>>,
                       vararg |-> <<>>, kwonlyargs |-> <<>>, kw_defaults |-> <<>>, kwarg |-> <<>>,
                       defaults |-> <<
                        [cls |-> "Name", nid |-> 86, lineno |-> 28, ctx |-> "Load", id |-> "k"]>>]>>,
                     body |-> <<
                      [cls |-> "Return", nid |-> 87, lineno |-> 29,
                       value |-> <<[cls |-> "Name", nid |-> 88, lineno |-> 29, ctx |-> "Load", id |-> "k"]>>]>>,
                     decorator_list |-> <<>>, returns |-> <<>>]>>,
                   orelse |-> <<>>]>>,
                 decorator_list |-> <<>>, returns |-> <<>>]>>,
               decorator_list |-> <<>>],
              [cls |-> "FunctionDef", nid |-> 89, lineno |-> 31, end_lineno |-> 32, name |-> "one",
               args |-> <<[cls |-> "arguments", nid |-> 90, lineno |-> 0, posonlyargs |-> <<>>,
                 args |-> <<
                  [cls |-> "arg", nid |-> 91, lineno |-> 31, arg |-> "value", annotation |-> <<>>],
                  [cls |-> "arg", nid |-> 92, lineno |-> 31, arg |-> "opts", annotation |-> <<>>],
                  [cls |-> "arg", nid |-> 93, lineno |-> 31, arg |-> "extra", annotation |-> <<>>]>>,
                 vararg |-> <<>>, kwonlyargs |-> <<>>, kw_defaults |-> <<>>, kwarg |-> <<>>,
                 defaults |-> <<
                  [cls |-> "Call", nid |-> 94, lineno |-> 31,
                   func |-> <<[cls |-> "Name", nid |-> 95, lineno |-> 31, ctx |-> "Load", id |-> "tuple"]>>,
                   args |-> <<>>, keywords |-> <<>>],
                  [cls |-> "Call", nid |-> 96, lineno |-> 31,
                   func |-> <<[cls |-> "Attribute", nid |-> 97, lineno |-> 31,
                     value |-> <<[cls |-> "Name", nid |-> 98, lineno |-> 31, ctx |-> "Load", id |-> "dataclasses"]>>,
                     attr |-> "field"]>>,
                   args |-> <<>>, keywords |-> <<>>]>>]>>,
               body |-> <<
                [cls |-> "Expr", nid |-> 99, lineno |-> 32,
                 value |-> <<[cls |-> "Constant", nid |-> 100, lineno |-> 32, vtype |-> "str", value |-> <<"O", "n", "e", ".">>]>>]>>,
               decorator_list |-> <<>>, returns |-> <<>>]>>]]

\*   def f(:
Src_invalid_short ==
    [valid |-> FALSE, pieces |-> <<7, 0>>,
     tree |-> [cls |-> "NoneType"]]

\*   x = 1
\*   y = (
\*   z = 2
Src_invalid_long ==
    [valid |-> FALSE, pieces |-> <<5, 5, 5, 0>>,
     tree |-> [cls |-> "NoneType"]]

Corpus ==
    [empty |-> Src_empty,
     simple |-> Src_simple,
     oneline |-> Src_oneline,
     tiny |-> Src_tiny,
     branchy |-> Src_branchy,
     unsafe |-> Src_unsafe,
     class |-> Src_class,
     methods |-> Src_methods,
     cube |-> Src_cube,
     pair |-> Src_pair,
     scan |-> Src_scan,
     chain |-> Src_chain,
     flow |-> Src_flow,
     registry |-> Src_registry,
     invalid_short |-> Src_invalid_short,
     invalid_long |-> Src_invalid_long]

\* str.upper() and str.lower() on the identifiers the corpus uses
str_upper ==
    "DEBUG" :> "DEBUG" @@ "KeyError" :> "KEYERROR" @@ "TIMEOUT" :> "TIMEOUT" @@
    "ValueError" :> "VALUEERROR" @@ "a" :> "A" @@ "b" :> "B" @@ "breakpoint" :> "BREAKPOINT" @@
    "c" :> "C" @@ "cache" :> "CACHE" @@ "cfg" :> "CFG" @@ "data" :> "DATA" @@
    "dataclasses" :> "DATACLASSES" @@ "dict" :> "DICT" @@ "done" :> "DONE" @@
    "eval" :> "EVAL" @@ "exec" :> "EXEC" @@ "f" :> "F" @@ "flag" :> "FLAG" @@
    "grid" :> "GRID" @@ "high" :> "HIGH" @@ "i" :> "I" @@ "id" :> "ID" @@ "inner" :> "INNER" @@
    "int" :> "INT" @@ "item" :> "ITEM" @@ "items" :> "ITEMS" @@ "j" :> "J" @@ "k" :> "K" @@
    "kind" :> "KIND" @@ "limit" :> "LIMIT" @@ "list" :> "LIST" @@ "low" :> "LOW" @@
    "more" :> "MORE" @@ "n" :> "N" @@ "open" :> "OPEN" @@ "opts" :> "OPTS" @@
    "password" :> "PASSWORD" @@ "path" :> "PATH" @@ "pickle" :> "PICKLE" @@
    "print" :> "PRINT" @@ "range" :> "RANGE" @@ "requests" :> "REQUESTS" @@
    "retries" :> "RETRIES" @@ "seen" :> "SEEN" @@ "self" :> "SELF" @@ "set" :> "SET" @@
    "subprocess" :> "SUBPROCESS" @@ "table" :> "TABLE" @@ "tags" :> "TAGS" @@
    "tuple" :> "TUPLE" @@ "url" :> "URL" @@ "x" :> "X" @@ "y" :> "Y" @@ "yaml" :> "YAML"

str_lower ==
    "DEBUG" :> "debug" @@ "KeyError" :> "keyerror" @@ "TIMEOUT" :> "timeout" @@
    "ValueError" :> "valueerror" @@ "a" :> "a" @@ "b" :> "b" @@ "breakpoint" :> "breakpoint" @@
    "c" :> "c" @@ "cache" :> "cache" @@ "cfg" :> "cfg" @@ "data" :> "data" @@
    "dataclasses" :> "dataclasses" @@ "dict" :> "dict" @@ "done" :> "done" @@
    "eval" :> "eval" @@ "exec" :> "exec" @@ "f" :> "f" @@ "flag" :> "flag" @@
    "grid" :> "grid" @@ "high" :> "high" @@ "i" :> "i" @@ "id" :> "id" @@ "inner" :> "inner" @@
    "int" :> "int" @@ "item" :> "item" @@ "items" :> "items" @@ "j" :> "j" @@ "k" :> "k" @@
    "kind" :> "kind" @@ "limit" :> "limit" @@ "list" :> "list" @@ "low" :> "low" @@
    "more" :> "more" @@ "n" :> "n" @@ "open" :> "open" @@ "opts" :> "opts" @@
    "password" :> "password" @@ "path" :> "path" @@ "pickle" :> "pickle" @@
    "print" :> "print" @@ "range" :> "range" @@ "requests" :> "requests" @@
    "retries" :> "retries" @@ "seen" :> "seen" @@ "self" :> "self" @@ "set" :> "set" @@
    "subprocess" :> "subprocess" @@ "table" :> "table" @@ "tags" :> "tags" @@
    "tuple" :> "tuple" @@ "url" :> "url" @@ "x" :> "x" @@ "y" :> "y" @@ "yaml" :> "yaml"

\* end of the corpus

(***************************************************************************)
(* Parsing.                                                                *)
(***************************************************************************)

\* ast.parse(source_code) raises SyntaxError
SyntaxError(src) == ~src.valid

\* ast.parse(source_code), for a text it accepts
ast_parse(src) == src.tree

\* ast.walk(ast.parse(source_code)), for each text of the corpus
tree_walk ==
    [key \in DOMAIN Corpus |->
        IF Corpus[key].valid THEN ast_walk(Corpus[key].tree) ELSE <<>>]

\* the function definitions that ast.walk(ast.parse(source_code)) yields
tree_functions ==
    [key \in DOMAIN Corpus |->
        SelectSeq(tree_walk[key], LAMBDA node : isinstance(node, FunctionDefs))]

\* the texts as the program's functions get them: what the corpus records of
\* each, with what ast.walk yields of its tree
Texts ==
    [key \in DOMAIN Corpus |->
        [valid |-> Corpus[key].valid, pieces |-> Corpus[key].pieces,
         tree |-> Corpus[key].tree, walk |-> tree_walk[key],
         functions |-> tree_functions[key]]]

\* splitlines_len with a line for every newline character
splitlines_len_newlines(src) == Len(src.pieces) - 1

\* len(source_code.splitlines()): the pieces of the text between its newline
\* characters, the empty piece after a final newline being no line
splitlines_len(src) ==
    IF src.pieces[Len(src.pieces)] = 0 THEN Len(src.pieces) - 1 ELSE Len(src.pieces)

(***************************************************************************)
(* radon.complexity.cc_visit: radon's ComplexityVisitor.  A visitor is the *)
(* record of its complexity, functions and classes; a block is the record  *)
(* of its name and complexity.                                             *)
(***************************************************************************)

\* what generic_visit adds to the visitor's complexity for one node
cc_node_complexity(node) ==
    CASE node.cls = "Try" ->
            Len(node.handlers) + (IF node.orelse # <<>> THEN 1 ELSE 0)
      [] node.cls = "BoolOp" -> Len(node.values) - 1
      [] node.cls \in {"If", "IfExp"} -> 1
      [] node.cls \in {"For", "While", "AsyncFor"} ->
            (IF node.orelse # <<>> THEN 1 ELSE 0) + 1
      [] node.cls = "comprehension" -> Len(node.ifs) + 1
      [] OTHER -> 0

RECURSIVE cc_visit_node(_, _)
RECURSIVE cc_visit_all(_, _)

\* the visitors of the statements of a function or class body, each started
\* with off=False (complexity 0)
cc_body_visitors(body) ==
    [i \in 1..Len(body) |->
        cc_visit_node(body[i], [complexity |-> 0, functions |-> <<>>, classes |-> <<>>])]

RECURSIVE SumSeq(_)
SumSeq(s) == IF s = <<>> THEN 0 ELSE Head(s) + SumSeq(Tail(s))

\* visit_FunctionDef: 1 plus the complexity of the body, closures left out
cc_function(node) ==
    LET visitors == cc_body_visitors(node.body)
    IN  [name |-> node.name,
         complexity |-> 1 + SumSeq([i \in 1..Len(visitors) |-> visitors[i].complexity])]

\* visit_ClassDef and Class.complexity: the class body's real complexity,
\* averaged over the methods when there are any
cc_class(node) ==
    LET visitors == cc_body_visitors(node.body)
        methods == Concat([i \in 1..Len(visitors) |-> visitors[i].functions])
        real_complexity ==
            1 + SumSeq([i \in 1..Len(visitors) |->
                    visitors[i].complexity
                    + SumSeq([j \in 1..Len(visitors[i].functions) |->
                                visitors[i].functions[j].complexity])])
    IN  [name |-> node.name,
         methods |-> methods,
         complexity |->
            IF methods = <<>> THEN real_complexity
            ELSE (real_complexity \div Len(methods))
                 + (IF Len(methods) > 1 THEN 1 ELSE 0)]

\* NodeVisitor.visit(node) on the visitor v
cc_visit_node(node, v) ==
    CASE isinstance(node, FunctionDefs) ->
            [v EXCEPT !.functions = Append(@, cc_function(node))]
      [] node.cls = "ClassDef" ->
            [v EXCEPT !.classes = Append(@, cc_class(node))]
      [] node.cls = "Assert" ->
            [v EXCEPT !.complexity = @ + 1]
      [] OTHER ->
            cc_visit_all(iter_child_nodes(node),
                         [v EXCEPT !.complexity = @ + cc_node_complexity(node)])

cc_visit_all(nodes, v) ==
    IF nodes = <<>> THEN v
    ELSE LET rest(w) == cc_visit_all(Tail(nodes), w)
         IN  Once(cc_visit_node(Head(nodes), v), rest)

\* cc_visit(source_code): the functions, then each class followed by its
\* methods
cc_visit(src) ==
    LET v == cc_visit_node(ast_parse(src),
                           [complexity |-> 1, functions |-> <<>>, classes |-> <<>>])
    IN  v.functions
        \o Concat([i \in 1..Len(v.classes) |->
                    <<[name |-> v.classes[i].name,
                       complexity |-> v.classes[i].complexity]>>
                    \o v.classes[i].methods])

(***************************************************************************)
(* The metric extractors.                                                  *)
(***************************************************************************)

\* max(start, max(s)) for a list of numbers
RECURSIVE MaxFrom(_, _)
MaxFrom(start, s) == IF s = <<>> THEN start ELSE MaxFrom(max(start, Head(s)), Tail(s))

_max_cyclomatic_complexity(src) ==
    LET blocks == cc_visit(src)
    IN  IF blocks = <<>> THEN 1
        ELSE MaxFrom(blocks[1].complexity,
                     [i \in 1..Len(blocks) |-> blocks[i].complexity])

_max_function_lines(src) ==
    LET func_lines(node) == node.end_lineno - node.lineno + 1
    IN  MaxFrom(0, SeqMap(func_lines, src.functions))

_has_return_value(node) ==
    LET nodes == ast_walk(node)
    IN  \E i \in 1..Len(nodes) :
            isinstance(nodes[i], {"Return"}) /\ nodes[i].value # <<>>

\* the names of the parameters in node.args.args other than self and cls
named_params(node) ==
    SelectSeq(SeqMap(LAMBDA a : a.arg, node.args[1].args),
              LAMBDA name : name \notin {"self", "cls"})

\* the issue of a function or class definition, "" for None
_get_docstring_issue(node) ==
    LET body == getattr(node, "body")
        first == body[1]
        docstring == first.value[1].value
    IN  IF body = <<>> THEN "Missing docstring: " \o node.name
        ELSE IF ~(/\ isinstance(first, {"Expr"})
                  /\ isinstance(first.value[1], {"Constant"})
                  /\ first.value[1].vtype = "str")
        THEN "Missing docstring: " \o node.name
        ELSE IF isinstance(node, {"ClassDef"}) THEN ""
        ELSE IF Len(named_params(node)) > 0
                /\ ~Contains(docstring, <<"A", "r", "g", "s", ":">>)
        THEN node.name \o ": missing Args section in docstring"
        ELSE IF _has_return_value(node)
                /\ ~Contains(docstring, <<"R", "e", "t", "u", "r", "n", "s", ":">>)
        THEN node.name \o ": missing Returns section in docstring"
        ELSE ""

_check_docstrings(src) ==
    LET defs == SelectSeq(src.walk,
                          LAMBDA node : isinstance(node, FunctionDefs \cup {"ClassDef"}))
    IN  SelectSeq(SeqMap(_get_docstring_issue, defs), LAMBDA issue : issue # "")

_check_imports(src, allowed) ==
    LET forbidden(node) ==
            IF isinstance(node, {"Import"})
            THEN SelectSeq(SeqMap(LAMBDA a : a.name, node.names),
                           LAMBDA name : ~In(name, allowed))
            ELSE IF isinstance(node, {"ImportFrom"})
                    /\ node.module # "" /\ ~In(node.module, allowed)
            THEN <<node.module>>
            ELSE <<>>
    IN  Concat(SeqMap(forbidden, src.walk))

_COMPLEXITY_ORDER ==
    ("O(1)" :> 0) @@ ("O(log n)" :> 1) @@ ("O(n)" :> 2) @@ ("O(n log n)" :> 3)
    @@ ("O(n^2)" :> 4) @@ ("O(n^3)" :> 5) @@ ("O(2^n)" :> 6)

_NESTING_TO_COMPLEXITY ==
    (0 :> "O(1)") @@ (1 :> "O(n)") @@ (2 :> "O(n^2)") @@ (3 :> "O(n^3)")

\* _complexity_rank with the lowest rank for a string outside the table
_complexity_rank_lowest(complexity) ==
    IF complexity \in DOMAIN _COMPLEXITY_ORDER
    THEN _COMPLEXITY_ORDER[complexity]
    ELSE 0

_complexity_rank(complexity) ==
    IF complexity \in DOMAIN _COMPLEXITY_ORDER
    THEN _COMPLEXITY_ORDER[complexity]
    ELSE Cardinality(DOMAIN _COMPLEXITY_ORDER)

RECURSIVE _max_loop_depth(_, _)
_max_loop_depth(node, current) ==
    LET depth(child) ==
            IF isinstance(child, {"For", "While"})
            THEN _max_loop_depth(child, current + 1)
            ELSE _max_loop_depth(child, current)
    IN  MaxFrom(current, SeqMap(depth, iter_child_nodes(node)))

_estimate_time_complexity(src) ==
    LET depth(node) == _max_loop_depth(node, 0)
        max_depth == MaxFrom(0, SeqMap(depth, src.functions))
    IN  IF max_depth \in DOMAIN _NESTING_TO_COMPLEXITY
        THEN _NESTING_TO_COMPLEXITY[max_depth]
        ELSE "O(n^" \o ToString(max_depth) \o ")"

_max_parameters(src) ==
    LET params(node) == Len(named_params(node))
    IN  MaxFrom(0, SeqMap(params, src.functions))

RECURSIVE _walk_nesting(_, _)
\* _walk_nesting that does not look beneath a child that is no control
\* structure
_walk_nesting_shallow(node, current) ==
    LET _nesting_types == {"If", "For", "While", "Try", "With"}
        depth(child) ==
            IF isinstance(child, _nesting_types)
            THEN _walk_nesting(child, current + 1)
            ELSE current
    IN  MaxFrom(current, SeqMap(depth, iter_child_nodes(node)))

_walk_nesting(node, current) ==
    LET _nesting_types == {"If", "For", "While", "Try", "With"}
        depth(child) ==
            IF isinstance(child, _nesting_types)
            THEN _walk_nesting(child, current + 1)
            ELSE _walk_nesting(child, current)
    IN  MaxFrom(current, SeqMap(depth, iter_child_nodes(node)))

_max_nesting_depth(src) ==
    LET depth(node) == _walk_nesting(node, 0)
    IN  MaxFrom(0, SeqMap(depth, src.functions))

_max_return_statements(src) ==
    LET count(node) == Count(LAMBDA child : isinstance(child, {"Return"}), ast_walk(node))
    IN  MaxFrom(0, SeqMap(count, src.functions))

(***************************************************************************)
(* The pattern detectors: structural and correctness helpers.              *)
(***************************************************************************)

\* isinstance(node.func, ast.Name) and node.func.id == name, for a Call
calls_name(node, name) ==
    /\ isinstance(node, {"Call"})
    /\ isinstance(node.func[1], {"Name"})
    /\ node.func[1].id = name

\* [n.lineno for n in nodes]
linenos(nodes) == SeqMap(LAMBDA n : n.lineno, nodes)

_find_print_calls(src) ==
    linenos(SelectSeq(src.walk, LAMBDA node : calls_name(node, "print")))

_find_star_imports(src) ==
    LET modules(node) ==
            IF isinstance(node, {"ImportFrom"})
            THEN SeqMap(LAMBDA alias : node.module,
                        SelectSeq(node.names, LAMBDA alias : alias.name = "*"))
            ELSE <<>>
    IN  Concat(SeqMap(modules, src.walk))

\* node.args.defaults + node.args.kw_defaults
all_defaults(node) == node.args[1].defaults \o node.args[1].kw_defaults

\* _find_mutable_defaults naming the function once for each mutable default
_find_mutable_defaults_each(src) ==
    LET mutable(default) == isinstance(default, {"List", "Dict", "Set"})
        names(node) == SeqMap(LAMBDA default : node.name,
                              SelectSeq(all_defaults(node), mutable))
    IN  Concat(SeqMap(names, src.functions))

_find_mutable_defaults(src) ==
    LET mutable(node) ==
            \E i \in 1..Len(all_defaults(node)) :
                isinstance(all_defaults(node)[i], {"List", "Dict", "Set"})
    IN  SeqMap(LAMBDA node : node.name,
               SelectSeq(src.functions, mutable))

_find_global_state(src) ==
    LET names(node) ==
            IF isinstance(node, {"Assign"})
            THEN SeqMap(LAMBDA target : target.id,
                    SelectSeq(node.targets,
                        LAMBDA target : /\ isinstance(target, {"Name"})
                                        /\ target.id # str_upper[target.id]))
            ELSE <<>>
    IN  Concat(SeqMap(names, ast_parse(src).body))

_find_bare_excepts(src) ==
    linenos(SelectSeq(src.walk,
                LAMBDA n : isinstance(n, {"ExceptHandler"}) /\ n.type = <<>>))

_find_try_except_pass(src) ==
    linenos(SelectSeq(src.walk,
                LAMBDA node : /\ isinstance(node, {"ExceptHandler"})
                              /\ Len(node.body) = 1
                              /\ isinstance(node.body[1], {"Pass"})))

RECURSIVE _walk_skip_functions(_)
_walk_skip_functions(node) ==
    <<node>>
    \o Concat(SeqMap(_walk_skip_functions,
                SelectSeq(iter_child_nodes(node),
                          LAMBDA child : ~isinstance(child, FunctionDefs))))

_find_return_in_finally(src) ==
    LET jumps(stmt) ==
            linenos(SelectSeq(_walk_skip_functions(stmt),
                        LAMBDA child : isinstance(child, {"Return", "Break", "Continue"})))
        in_try(node) ==
            IF isinstance(node, {"Try"}) THEN Concat(SeqMap(jumps, node.finalbody))
            ELSE <<>>
    IN  Concat(SeqMap(in_try, src.walk))

\* getattr(node, attr, None) when it is a list of statements, else []: the
\* body of a Lambda and the body and orelse of an IfExp are single nodes
stmt_list(node, attr) ==
    IF attr \in DOMAIN node /\ ~isinstance(node, {"Lambda", "IfExp"})
    THEN node[attr] ELSE <<>>

\* _find_unreachable_code leaving each statement list at its first finding
_find_unreachable_code_first(src) ==
    LET terminal == {"Return", "Raise", "Break", "Continue"}
        after(stmts) ==
            LET found == Concat([i \in 1..Len(stmts) |->
                            IF isinstance(stmts[i], terminal) /\ i < Len(stmts)
                            THEN <<stmts[i + 1].lineno>> ELSE <<>>])
            IN  IF found = <<>> THEN <<>> ELSE <<found[1]>>
        in_node(node) ==
            after(stmt_list(node, "body")) \o after(stmt_list(node, "orelse"))
            \o after(stmt_list(node, "finalbody"))
    IN  Concat(SeqMap(in_node, src.walk))

_find_unreachable_code(src) ==
    LET terminal == {"Return", "Raise", "Break", "Continue"}
        after(stmts) ==
            Concat([i \in 1..Len(stmts) |->
                IF isinstance(stmts[i], terminal) /\ i < Len(stmts)
                THEN <<stmts[i + 1].lineno>> ELSE <<>>])
        in_node(node) ==
            after(stmt_list(node, "body")) \o after(stmt_list(node, "orelse"))
            \o after(stmt_list(node, "finalbody"))
    IN  Concat(SeqMap(in_node, src.walk))

\* the value of a Constant as a member of a Python set: True and False are
\* equal to 1 and 0, and a float with no fraction to its integer
constant_value(key) ==
    CASE key.vtype = "bool" ->
            [vtype |-> "int",
             value |-> IF key.value = <<"T", "r", "u", "e">> THEN <<"1">> ELSE <<"0">>]
      [] /\ key.vtype = "float" /\ Len(key.value) > 2
         /\ SubSeq(key.value, Len(key.value) - 1, Len(key.value)) = <<".", "0">> ->
            [vtype |-> "int", value |-> SubSeq(key.value, 1, Len(key.value) - 2)]
      [] OTHER -> [vtype |-> key.vtype, value |-> key.value]

RECURSIVE dict_keys_scan(_, _)
\* the loop over node.keys of _find_duplicate_dict_keys, from the set seen
dict_keys_scan(keys, seen) ==
    IF keys = <<>> THEN <<>>
    ELSE LET key == Head(keys)
         IN  IF ~isinstance(key, {"Constant"}) THEN dict_keys_scan(Tail(keys), seen)
             ELSE IF constant_value(key) \in seen
             THEN <<key.lineno>> \o dict_keys_scan(Tail(keys), seen)
             ELSE dict_keys_scan(Tail(keys), seen \cup {constant_value(key)})

\* _find_duplicate_dict_keys with one set seen for all the literals of the text
_find_duplicate_dict_keys_shared(src) ==
    LET keys_of(node) == IF isinstance(node, {"Dict"}) THEN node.keys ELSE <<>>
    IN  dict_keys_scan(Concat(SeqMap(keys_of, src.walk)), {})

_find_duplicate_dict_keys(src) ==
    LET in_dict(node) ==
            IF isinstance(node, {"Dict"}) THEN dict_keys_scan(node.keys, {}) ELSE <<>>
    IN  Concat(SeqMap(in_dict, src.walk))

RECURSIVE _extract_target_names(_)
_extract_target_names(target) ==
    IF isinstance(target, {"Name"}) THEN {target.id}
    ELSE IF isinstance(target, {"Tuple", "List"})
    THEN UNION { _extract_target_names(target.elts[i]) : i \in 1..Len(target.elts) }
    ELSE {}

\* args.args[n_args - n_defaults + i] raises IndexError
_get_default_names_IndexError(node) ==
    /\ "args" \in DOMAIN node
    /\ isinstance(node, FunctionDefs \cup {"Lambda"})
    /\ Len(node.args[1].defaults) > 2 * Len(node.args[1].args)

_get_default_names(node) ==
    IF ~("args" \in DOMAIN node /\ isinstance(node, FunctionDefs \cup {"Lambda"}))
    THEN {}
    ELSE LET args == node.args[1]
             n_defaults == Len(args.defaults)
             n_args == Len(args.args)
             \* a negative index counts from the end of the list
             at(k) == IF k >= 0 THEN args.args[k + 1] ELSE args.args[n_args + k + 1]
         IN  { at(n_args - n_defaults + i).arg : i \in 0..(n_defaults - 1) }

_closure_uses_loop_var(node, loop_vars) ==
    LET defaults == _get_default_names(node)
        nodes == ast_walk(node)
    IN  \E i \in 1..Len(nodes) :
            LET child == nodes[i]
            IN  /\ isinstance(child, {"Name"})
                /\ child.id \in loop_vars
                /\ child.id \notin defaults

_find_loop_closures(src) ==
    LET in_loop(node) ==
            IF ~isinstance(node, {"For"}) THEN <<>>
            ELSE LET loop_vars == _extract_target_names(node.target[1])
                 IN  linenos(SelectSeq(ast_walk(node),
                        LAMBDA child :
                            /\ child.nid # node.nid
                            /\ isinstance(child, FunctionDefs \cup {"Lambda"})
                            /\ _closure_uses_loop_var(child, loop_vars)))
    IN  Concat(SeqMap(in_loop, src.walk))

\* _find_loop_closures raises IndexError out of _get_default_names
_find_loop_closures_IndexError(src) ==
    LET loops == SelectSeq(src.walk, LAMBDA node : isinstance(node, {"For"}))
        raises(node) ==
            LET nodes == ast_walk(node)
            IN  \E j \in 1..Len(nodes) :
                    /\ nodes[j].nid # node.nid
                    /\ isinstance(nodes[j], FunctionDefs \cup {"Lambda"})
                    /\ _get_default_names_IndexError(nodes[j])
    IN  \E i \in 1..Len(loops) : raises(loops[i])

_SAFE_CALL_DEFAULTS ==
    {"frozenset", "tuple", "bytes", "int", "float", "str", "bool", "complex",
     "Field", "field", "dataclass", "property"}

_get_call_name(node) ==
    IF isinstance(node.func[1], {"Name"}) THEN node.func[1].id
    ELSE IF isinstance(node.func[1], {"Attribute"}) THEN node.func[1].attr
    ELSE ""

_find_call_defaults(src) ==
    LET unsafe(node) ==
            \E i \in 1..Len(all_defaults(node)) :
                LET default == all_defaults(node)[i]
                IN  /\ isinstance(default, {"Call"})
                    /\ _get_call_name(default) \notin _SAFE_CALL_DEFAULTS
    IN  SeqMap(LAMBDA node : node.name,
               SelectSeq(src.functions, unsafe))

_BUILTIN_NAMES ==
    {"ArithmeticError", "AssertionError", "AttributeError", "BaseException",
     "BaseExceptionGroup", "BlockingIOError", "BrokenPipeError", "BufferError",
     "BytesWarning", "ChildProcessError", "ConnectionAbortedError", "ConnectionError",
     "ConnectionRefusedError", "ConnectionResetError", "DeprecationWarning", "EOFError",
     "Ellipsis", "EncodingWarning", "EnvironmentError", "Exception", "ExceptionGroup",
     "FileExistsError", "FileNotFoundError", "FloatingPointError", "FutureWarning",
     "GeneratorExit", "IOError", "ImportError", "ImportWarning", "IndentationError",
     "IndexError", "InterruptedError", "IsADirectoryError", "KeyError", "KeyboardInterrupt",
     "LookupError", "MemoryError", "ModuleNotFoundError", "NameError", "NotADirectoryError",
     "NotImplemented", "NotImplementedError", "OSError", "OverflowError",
     "PendingDeprecationWarning", "PermissionError", "ProcessLookupError", "RecursionError",
     "ReferenceError", "ResourceWarning", "RuntimeError", "RuntimeWarning",
     "StopAsyncIteration", "StopIteration", "SyntaxError", "SyntaxWarning", "SystemError",
     "SystemExit", "TabError", "TimeoutError", "TypeError", "UnboundLocalError",
     "UnicodeDecodeError", "UnicodeEncodeError", "UnicodeError", "UnicodeTranslateError",
     "UnicodeWarning", "UserWarning", "ValueError", "Warning", "ZeroDivisionError",
     "__debug__", "abs", "aiter", "all", "anext", "any", "ascii", "bin", "bool",
     "breakpoint", "bytearray", "bytes", "callable", "chr", "classmethod", "compile",
     "complex", "copyright", "credits", "delattr", "dict", "dir", "divmod", "enumerate",
     "eval", "exec", "exit", "filter", "float", "format", "frozenset", "getattr", "globals",
     "hasattr", "hash", "help", "hex", "id", "input", "int", "isinstance", "issubclass",
     "iter", "len", "license", "list", "locals", "map", "max", "memoryview", "min", "next",
     "object", "oct", "open", "ord", "pow", "print", "property", "quit", "range", "repr",
     "reversed", "round", "set", "setattr", "slice", "sorted", "staticmethod", "str", "sum",
     "super", "tuple", "type", "vars", "zip"}

RECURSIVE shadows_scan(_, _)
\* the names _find_shadowed_builtins appends for the list of candidate names,
\* from the set seen
shadows_scan(names, seen) ==
    IF names = <<>> THEN <<>>
    ELSE IF Head(names) \in _BUILTIN_NAMES /\ Head(names) \notin seen
    THEN <<Head(names)>> \o shadows_scan(Tail(names), seen \cup {Head(names)})
    ELSE shadows_scan(Tail(names), seen)

_find_shadowed_builtins(src) ==
    LET candidates(node) ==
            IF isinstance(node, FunctionDefs) THEN <<node.name>>
            ELSE IF isinstance(node, {"Assign"})
            THEN SeqMap(LAMBDA target : target.id,
                    SelectSeq(node.targets, LAMBDA target : isinstance(target, {"Name"})))
            ELSE <<>>
    IN  shadows_scan(Concat(SeqMap(candidates, src.walk)), {})

_is_open_call(node) == calls_name(node, "open")

_find_open_without_with(src) ==
    LET nodes == src.walk
        withs == SelectSeq(nodes, LAMBDA node : isinstance(node, {"With"}))
        with_opens ==
            UNION { { withs[j].items[i].context_expr[1].nid :
                        i \in { k \in 1..Len(withs[j].items) :
                                  _is_open_call(withs[j].items[k].context_expr[1]) } } :
                    j \in 1..Len(withs) }
    IN  linenos(SelectSeq(nodes,
                    LAMBDA node : _is_open_call(node) /\ node.nid \notin with_opens))

(***************************************************************************)
(* The pattern detectors: security helpers.                                *)
(***************************************************************************)

_find_calls_by_name(src, name) ==
    linenos(SelectSeq(src.walk, LAMBDA n : calls_name(n, name)))

_UNSAFE_DESER_ATTRS == {"load", "loads", "Unpickler"}

_UNSAFE_DESER_MODULES == {"pickle", "marshal"}

\* node is a Call of <module>.<attr> with the module a plain name among
\* modules and the attribute among attrs
calls_attr(node, modules, attrs) ==
    /\ isinstance(node, {"Call"})
    /\ isinstance(node.func[1], {"Attribute"})
    /\ node.func[1].attr \in attrs
    /\ isinstance(node.func[1].value[1], {"Name"})
    /\ node.func[1].value[1].id \in modules

\* any(kw.arg == arg for kw in node.keywords)
has_keyword(node, arg) == \E i \in 1..Len(node.keywords) : node.keywords[i].arg = arg

_find_unsafe_deser(src) ==
    linenos(SelectSeq(src.walk,
                LAMBDA node : calls_attr(node, _UNSAFE_DESER_MODULES, _UNSAFE_DESER_ATTRS)))

_find_unsafe_yaml(src) ==
    linenos(SelectSeq(src.walk,
                LAMBDA node : /\ calls_attr(node, {"yaml"}, {"load"})
                              /\ ~has_keyword(node, "Loader")))

_find_shell_true(src) ==
    linenos(SelectSeq(src.walk,
                LAMBDA node :
                    /\ isinstance(node, {"Call"})
                    /\ \E i \in 1..Len(node.keywords) :
                          LET kw == node.keywords[i]
                          IN  /\ kw.arg = "shell"
                              /\ isinstance(kw.value[1], {"Constant"})
                              /\ kw.value[1].vtype = "bool"
                              /\ kw.value[1].value = <<"T", "r", "u", "e">>))

_SECRET_PATTERNS ==
    {"password", "passwd", "secret", "token", "api_key", "apikey",
     "access_key", "secret_key", "private_key"}

_find_hardcoded_secrets(src) ==
    LET names(node) ==
            IF ~isinstance(node, {"Assign"}) THEN <<>>
            ELSE SeqMap(LAMBDA target : target.id,
                    SelectSeq(node.targets,
                        LAMBDA target :
                            /\ isinstance(target, {"Name"})
                            /\ str_lower[target.id] \in _SECRET_PATTERNS
                            /\ isinstance(node.value[1], {"Constant"})
                            /\ node.value[1].vtype = "str"))
    IN  Concat(SeqMap(names, src.walk))

_REQUEST_METHODS == {"get", "post", "put", "delete", "patch", "head", "options"}

_find_requests_no_timeout(src) ==
    linenos(SelectSeq(src.walk,
                LAMBDA node : /\ calls_attr(node, {"requests"}, _REQUEST_METHODS)
                              /\ ~has_keyword(node, "timeout")))

(***************************************************************************)
(* The maintainability helpers.                                            *)
(***************************************************************************)

RECURSIVE _cognitive_for_node(_, _)
RECURSIVE _cognitive_score(_, _)
RECURSIVE _cognitive_for_if(_, _)
RECURSIVE _cognitive_for_if_body(_, _)
RECURSIVE _cognitive_for_try(_, _)
RECURSIVE _cognitive_for_node_stmts(_, _)

_cognitive_for_node(node, nesting) ==
    SumSeq(SeqMap(LAMBDA child : _cognitive_score(child, nesting), iter_child_nodes(node)))

_cognitive_score(child, nesting) ==
    CASE isinstance(child, {"If"}) -> _cognitive_for_if(child, nesting)
      [] isinstance(child, {"For", "While"}) ->
            (1 + nesting) + _cognitive_for_node(child, nesting + 1)
      [] isinstance(child, {"BoolOp"}) -> 1 + _cognitive_for_node(child, nesting)
      [] isinstance(child, {"IfExp"}) -> 1 + nesting + _cognitive_for_node(child, nesting)
      [] isinstance(child, {"Try"}) -> _cognitive_for_try(child, nesting)
      [] isinstance(child, {"Break", "Continue"}) -> 1
      [] isinstance(child, FunctionDefs \cup {"Lambda"}) ->
            _cognitive_for_node(child, nesting + 1)
      [] OTHER -> _cognitive_for_node(child, nesting)

\* what both _cognitive_for_if and _cognitive_for_if_body add for node.orelse
cognitive_orelse(orelse, nesting) ==
    IF orelse = <<>> THEN 0
    ELSE IF Len(orelse) = 1 /\ isinstance(orelse[1], {"If"})
    THEN 1 + _cognitive_for_if_body(orelse[1], nesting)
    ELSE 1 + _cognitive_for_node_stmts(orelse, nesting + 1)

\* _cognitive_for_if with a flat 1 for the if, whatever the nesting
_cognitive_for_if_flat(node, nesting) ==
    1 + _cognitive_for_node_stmts(node.body, nesting + 1)
    + cognitive_orelse(node.orelse, nesting)

_cognitive_for_if(node, nesting) ==
    (1 + nesting) + _cognitive_for_node_stmts(node.body, nesting + 1)
    + cognitive_orelse(node.orelse, nesting)

_cognitive_for_if_body(node, nesting) ==
    _cognitive_for_node_stmts(node.body, nesting + 1)
    + cognitive_orelse(node.orelse, nesting)

_cognitive_for_try(node, nesting) ==
    _cognitive_for_node_stmts(node.body, nesting)
    + SumSeq(SeqMap(LAMBDA handler :
                        1 + nesting + _cognitive_for_node_stmts(handler.body, nesting + 1),
                    node.handlers))
    + _cognitive_for_node_stmts(node.orelse, nesting)
    + _cognitive_for_node_stmts(node.finalbody, nesting)

_cognitive_for_node_stmts(stmts, nesting) ==
    SumSeq(SeqMap(LAMBDA stmt : _cognitive_score(stmt, nesting), stmts))

_max_cognitive_complexity(src) ==
    MaxFrom(0, SeqMap(LAMBDA node : _cognitive_for_node(node, 0),
                      src.functions))

_get_param_names(node) ==
    LET args == node.args[1]
    IN  { args.args[i].arg : i \in 1..Len(args.args) }
        \cup { args.kwonlyargs[i].arg : i \in 1..Len(args.kwonlyargs) }
        \cup { args.vararg[i].arg : i \in 1..Len(args.vararg) }
        \cup { args.kwarg[i].arg : i \in 1..Len(args.kwarg) }

_max_local_variables(src) ==
    LET locals_set(node) ==
            LET params == _get_param_names(node)
                stored == SelectSeq(ast_walk(node),
                            LAMBDA child : /\ isinstance(child, {"Name"})
                                           /\ child.ctx = "Store"
                                           /\ child.id \notin params)
            IN  { stored[i].id : i \in 1..Len(stored) }
    IN  MaxFrom(0, SeqMap(LAMBDA node : Cardinality(locals_set(node)),
                          src.functions))

_find_debugger_stmts(src) ==
    LET debuggers == {"pdb", "ipdb", "pudb"}
    IN  linenos(SelectSeq(src.walk,
            LAMBDA node :
                \/ calls_name(node, "breakpoint")
                \/ /\ isinstance(node, {"Import"})
                   /\ \E i \in 1..Len(node.names) : node.names[i].name \in debuggers
                \/ /\ isinstance(node, {"ImportFrom"})
                   /\ node.module \in debuggers))

_find_nested_imports(src) ==
    LET imports(func) ==
            linenos(SelectSeq(ast_walk(func),
                        LAMBDA child : isinstance(child, {"Import", "ImportFrom"})))
    IN  Concat(SeqMap(imports, src.functions))

_find_unannotated_fns(src) ==
    LET unannotated(node) ==
            \/ node.returns = <<>>
            \/ \E i \in 1..Len(node.args[1].args) :
                  /\ node.args[1].args[i].arg \notin {"self", "cls"}
                  /\ node.args[1].args[i].annotation = <<>>
    IN  SeqMap(LAMBDA node : node.name,
               SelectSeq(src.functions, unannotated))

(***************************************************************************)
(* The checkers.  A checker is given the violations v and the metrics m    *)
(* gathered so far and either returns, handing back the two as it leaves   *)
(* them, or raises what its extractor raises.                              *)
(***************************************************************************)

\* cs.<field> is None
is_None(cs, field) == field \notin DOMAIN cs

\* cs.<field> is not True
is_not_True(cs, field) == ~(field \in DOMAIN cs /\ cs[field] = TRUE)

\* the checker returns
Returned(v, m) == [exc |-> "", v |-> v, m |-> m]

\* the checker raises
Raised(exc, v, m) == [exc |-> exc, v |-> v, m |-> m]


_chk_cyclomatic_complexity(src, cs, v, m) ==
    IF is_None(cs, "max_cyclomatic_complexity") THEN Returned(v, m)
    ELSE IF SyntaxError(src) THEN Raised("SyntaxError", v, m)
    ELSE LET max_cc == _max_cyclomatic_complexity(src)
         IN  Returned(IF max_cc > cs.max_cyclomatic_complexity
                      THEN Append(v, "Cyclomatic complexity " \o ToString(max_cc)
                                     \o " > max " \o ToString(cs.max_cyclomatic_complexity))
                      ELSE v,
                      Put(m, "cyclomatic_complexity", max_cc))

_chk_lines_per_function(src, cs, v, m) ==
    IF is_None(cs, "max_lines_per_function") THEN Returned(v, m)
    ELSE IF SyntaxError(src) THEN Raised("SyntaxError", v, m)
    ELSE LET max_lines == _max_function_lines(src)
         IN  Returned(IF max_lines > cs.max_lines_per_function
                      THEN Append(v, "Function has " \o ToString(max_lines)
                                     \o " lines > max " \o ToString(cs.max_lines_per_function))
                      ELSE v,
                      Put(m, "lines_per_function", max_lines))

\* _chk_total_lines with a limit of its own when the field is None
_chk_total_lines_default(src, cs, v, m) ==
    LET total == splitlines_len(src)
        limit == IF is_None(cs, "max_total_lines") THEN 500 ELSE cs.max_total_lines
    IN  Returned(IF total > limit
                 THEN Append(v, "Total lines " \o ToString(total)
                                \o " > max " \o ToString(limit))
                 ELSE v,
                 Put(m, "total_lines", total))

_chk_total_lines(src, cs, v, m) ==
    IF is_None(cs, "max_total_lines") THEN Returned(v, m)
    ELSE LET total == splitlines_len(src)
         IN  Returned(IF total > cs.max_total_lines
                      THEN Append(v, "Total lines " \o ToString(total)
                                     \o " > max " \o ToString(cs.max_total_lines))
                      ELSE v,
                      Put(m, "total_lines", total))

_chk_docstrings(src, cs, v, m) ==
    IF is_not_True(cs, "require_docstrings") THEN Returned(v, m)
    ELSE IF SyntaxError(src) THEN Raised("SyntaxError", v, m)
    ELSE LET docstring_violations == _check_docstrings(src)
         IN  Returned(v \o docstring_violations,
                      Put(m, "missing_docstrings", docstring_violations))

\* _chk_time_complexity with an estimate of the threshold's own rank failing
_chk_time_complexity_or_equal(src, cs, v, m) ==
    IF is_None(cs, "max_time_complexity") THEN Returned(v, m)
    ELSE IF SyntaxError(src) THEN Raised("SyntaxError", v, m)
    ELSE LET estimated == _estimate_time_complexity(src)
         IN  Returned(IF _complexity_rank(estimated) >= _complexity_rank(cs.max_time_complexity)
                      THEN Append(v, "Time complexity " \o estimated
                                     \o " exceeds max " \o cs.max_time_complexity)
                      ELSE v,
                      Put(m, "time_complexity", estimated))

_chk_time_complexity(src, cs, v, m) ==
    IF is_None(cs, "max_time_complexity") THEN Returned(v, m)
    ELSE IF SyntaxError(src) THEN Raised("SyntaxError", v, m)
    ELSE LET estimated == _estimate_time_complexity(src)
         IN  Returned(IF _complexity_rank(estimated) > _complexity_rank(cs.max_time_complexity)
                      THEN Append(v, "Time complexity " \o estimated
                                     \o " exceeds max " \o cs.max_time_complexity)
                      ELSE v,
                      Put(m, "time_complexity", estimated))

_chk_parameters(src, cs, v, m) ==
    IF is_None(cs, "max_parameters") THEN Returned(v, m)
    ELSE IF SyntaxError(src) THEN Raised("SyntaxError", v, m)
    ELSE LET max_params == _max_parameters(src)
         IN  Returned(IF max_params > cs.max_parameters
                      THEN Append(v, "Function has " \o ToString(max_params)
                                     \o " parameters > max " \o ToString(cs.max_parameters))
                      ELSE v,
                      Put(m, "max_parameters", max_params))

_chk_nested_depth(src, cs, v, m) ==
    IF is_None(cs, "max_nested_depth") THEN Returned(v, m)
    ELSE IF SyntaxError(src) THEN Raised("SyntaxError", v, m)
    ELSE LET depth == _max_nesting_depth(src)
         IN  Returned(IF depth > cs.max_nested_depth
                      THEN Append(v, "Nesting depth " \o ToString(depth)
                                     \o " > max " \o ToString(cs.max_nested_depth))
                      ELSE v,
                      Put(m, "max_nested_depth", depth))

_chk_return_statements(src, cs, v, m) ==
    IF is_None(cs, "max_return_statements") THEN Returned(v, m)
    ELSE IF SyntaxError(src) THEN Raised("SyntaxError", v, m)
    ELSE LET max_returns == _max_return_statements(src)
         IN  Returned(IF max_returns > cs.max_return_statements
                      THEN Append(v, "Function has " \o ToString(max_returns)
                                     \o " return statements > max " \o ToString(cs.max_return_statements))
                      ELSE v,
                      Put(m, "max_return_statements", max_returns))

\* _chk_print_statements with a toggle set to False checked like True
_chk_print_statements_not_None(src, cs, v, m) ==
    IF is_None(cs, "no_print_statements") THEN Returned(v, m)
    ELSE IF SyntaxError(src) THEN Raised("SyntaxError", v, m)
    ELSE LET prints == _find_print_calls(src)
         IN  Returned(v \o SeqMap(LAMBDA ln : "Print statement at line " \o ToString(ln), prints),
                      Put(m, "print_statements", prints))

_chk_print_statements(src, cs, v, m) ==
    IF is_not_True(cs, "no_print_statements") THEN Returned(v, m)
    ELSE IF SyntaxError(src) THEN Raised("SyntaxError", v, m)
    ELSE LET prints == _find_print_calls(src)
         IN  Returned(v \o SeqMap(LAMBDA ln : "Print statement at line " \o ToString(ln), prints),
                      Put(m, "print_statements", prints))

_chk_star_imports(src, cs, v, m) ==
    IF is_not_True(cs, "no_star_imports") THEN Returned(v, m)
    ELSE IF SyntaxError(src) THEN Raised("SyntaxError", v, m)
    ELSE LET stars == _find_star_imports(src)
         IN  Returned(v \o SeqMap(LAMBDA mod : "Star import: from " \o mod \o " import *", stars),
                      Put(m, "star_imports", stars))

_chk_mutable_defaults(src, cs, v, m) ==
    IF is_not_True(cs, "no_mutable_defaults") THEN Returned(v, m)
    ELSE IF SyntaxError(src) THEN Raised("SyntaxError", v, m)
    ELSE LET mutables == _find_mutable_defaults(src)
         IN  Returned(v \o SeqMap(LAMBDA name : "Mutable default argument in " \o name, mutables),
                      Put(m, "mutable_defaults", mutables))

_chk_global_state(src, cs, v, m) ==
    IF is_not_True(cs, "no_global_state") THEN Returned(v, m)
    ELSE IF SyntaxError(src) THEN Raised("SyntaxError", v, m)
    ELSE LET globals_found == _find_global_state(src)
         IN  Returned(v \o SeqMap(LAMBDA name : "Global mutable state: " \o name, globals_found),
                      Put(m, "global_state", globals_found))

_chk_allowed_imports(src, cs, v, m) ==
    IF is_None(cs, "allowed_imports") THEN Returned(v, m)
    ELSE IF SyntaxError(src) THEN Raised("SyntaxError", v, m)
    ELSE LET forbidden == _check_imports(src, cs.allowed_imports)
         IN  Returned(v \o SeqMap(LAMBDA imp : "Forbidden import: " \o imp, forbidden),
                      Put(m, "forbidden_imports", forbidden))

_chk_bare_except(src, cs, v, m) ==
    IF is_not_True(cs, "no_bare_except") THEN Returned(v, m)
    ELSE IF SyntaxError(src) THEN Raised("SyntaxError", v, m)
    ELSE LET lines == _find_bare_excepts(src)
         IN  Returned(v \o SeqMap(LAMBDA ln : "Bare except at line " \o ToString(ln), lines),
                      Put(m, "bare_excepts", lines))

_chk_try_except_pass(src, cs, v, m) ==
    IF is_not_True(cs, "no_try_except_pass") THEN Returned(v, m)
    ELSE IF SyntaxError(src) THEN Raised("SyntaxError", v, m)
    ELSE LET lines == _find_try_except_pass(src)
         IN  Returned(v \o SeqMap(LAMBDA ln : "Silenced exception (except/pass) at line " \o ToString(ln), lines),
                      Put(m, "try_except_pass", lines))

_chk_return_in_finally(src, cs, v, m) ==
    IF is_not_True(cs, "no_return_in_finally") THEN Returned(v, m)
    ELSE IF SyntaxError(src) THEN Raised("SyntaxError", v, m)
    ELSE LET lines == _find_return_in_finally(src)
         IN  Returned(v \o SeqMap(LAMBDA ln : "Return/break/continue in finally block at line " \o ToString(ln), lines),
                      Put(m, "return_in_finally", lines))

_chk_unreachable_code(src, cs, v, m) ==
    IF is_not_True(cs, "no_unreachable_code") THEN Returned(v, m)
    ELSE IF SyntaxError(src) THEN Raised("SyntaxError", v, m)
    ELSE LET lines == _find_unreachable_code(src)
         IN  Returned(v \o SeqMap(LAMBDA ln : "Unreachable code at line " \o ToString(ln), lines),
                      Put(m, "unreachable_code", lines))

_chk_duplicate_dict_keys(src, cs, v, m) ==
    IF is_not_True(cs, "no_duplicate_dict_keys") THEN Returned(v, m)
    ELSE IF SyntaxError(src) THEN Raised("SyntaxError", v, m)
    ELSE LET lines == _find_duplicate_dict_keys(src)
         IN  Returned(v \o SeqMap(LAMBDA ln : "Duplicate dictionary key at line " \o ToString(ln), lines),
                      Put(m, "duplicate_dict_keys", lines))

_chk_loop_variable_closure(src, cs, v, m) ==
    IF is_not_True(cs, "no_loop_variable_closure") THEN Returned(v, m)
    ELSE IF SyntaxError(src) THEN Raised("SyntaxError", v, m)
    ELSE IF _find_loop_closures_IndexError(src) THEN Raised("IndexError", v, m)
    ELSE LET lines == _find_loop_closures(src)
         IN  Returned(v \o SeqMap(LAMBDA ln : "Closure captures loop variable at line " \o ToString(ln), lines),
                      Put(m, "loop_variable_closures", lines))

_chk_mutable_call_defaults(src, cs, v, m) ==
    IF is_not_True(cs, "no_mutable_call_in_defaults") THEN Returned(v, m)
    ELSE IF SyntaxError(src) THEN Raised("SyntaxError", v, m)
    ELSE LET names == _find_call_defaults(src)
         IN  Returned(v \o SeqMap(LAMBDA name : "Function call in default argument in " \o name, names),
                      Put(m, "mutable_call_defaults", names))

_chk_shadowing_builtins(src, cs, v, m) ==
    IF is_not_True(cs, "no_shadowing_builtins") THEN Returned(v, m)
    ELSE IF SyntaxError(src) THEN Raised("SyntaxError", v, m)
    ELSE LET names == _find_shadowed_builtins(src)
         IN  Returned(v \o SeqMap(LAMBDA name : "Shadows builtin: " \o name, names),
                      Put(m, "shadowed_builtins", names))

_chk_open_without_with(src, cs, v, m) ==
    IF is_not_True(cs, "no_open_without_context_manager") THEN Returned(v, m)
    ELSE IF SyntaxError(src) THEN Raised("SyntaxError", v, m)
    ELSE LET lines == _find_open_without_with(src)
         IN  Returned(v \o SeqMap(LAMBDA ln : "open() without context manager at line " \o ToString(ln), lines),
                      Put(m, "open_without_with", lines))

_chk_eval(src, cs, v, m) ==
    IF is_not_True(cs, "no_eval") THEN Returned(v, m)
    ELSE IF SyntaxError(src) THEN Raised("SyntaxError", v, m)
    ELSE LET lines == _find_calls_by_name(src, "eval")
         IN  Returned(v \o SeqMap(LAMBDA ln : "eval() call at line " \o ToString(ln), lines),
                      Put(m, "eval_calls", lines))

_chk_exec(src, cs, v, m) ==
    IF is_not_True(cs, "no_exec") THEN Returned(v, m)
    ELSE IF SyntaxError(src) THEN Raised("SyntaxError", v, m)
    ELSE LET lines == _find_calls_by_name(src, "exec")
         IN  Returned(v \o SeqMap(LAMBDA ln : "exec() call at line " \o ToString(ln), lines),
                      Put(m, "exec_calls", lines))

_chk_unsafe_deserialization(src, cs, v, m) ==
    IF is_not_True(cs, "no_unsafe_deserialization") THEN Returned(v, m)
    ELSE IF SyntaxError(src) THEN Raised("SyntaxError", v, m)
    ELSE LET lines == _find_unsafe_deser(src)
         IN  Returned(v \o SeqMap(LAMBDA ln : "Unsafe deserialization at line " \o ToString(ln), lines),
                      Put(m, "unsafe_deserialization", lines))

_chk_unsafe_yaml(src, cs, v, m) ==
    IF is_not_True(cs, "no_unsafe_yaml") THEN Returned(v, m)
    ELSE IF SyntaxError(src) THEN Raised("SyntaxError", v, m)
    ELSE LET lines == _find_unsafe_yaml(src)
         IN  Returned(v \o SeqMap(LAMBDA ln : "Unsafe yaml.load() without SafeLoader at line " \o ToString(ln), lines),
                      Put(m, "unsafe_yaml", lines))

_chk_shell_true(src, cs, v, m) ==
    IF is_not_True(cs, "no_shell_true") THEN Returned(v, m)
    ELSE IF SyntaxError(src) THEN Raised("SyntaxError", v, m)
    ELSE LET lines == _find_shell_true(src)
         IN  Returned(v \o SeqMap(LAMBDA ln : "subprocess with shell=True at line " \o ToString(ln), lines),
                      Put(m, "shell_true", lines))

_chk_hardcoded_secrets(src, cs, v, m) ==
    IF is_not_True(cs, "no_hardcoded_secrets") THEN Returned(v, m)
    ELSE IF SyntaxError(src) THEN Raised("SyntaxError", v, m)
    ELSE LET names == _find_hardcoded_secrets(src)
         IN  Returned(v \o SeqMap(LAMBDA name : "Hardcoded secret in variable: " \o name, names),
                      Put(m, "hardcoded_secrets", names))

_chk_requests_no_timeout(src, cs, v, m) ==
    IF is_not_True(cs, "no_requests_without_timeout") THEN Returned(v, m)
    ELSE IF SyntaxError(src) THEN Raised("SyntaxError", v, m)
    ELSE LET lines == _find_requests_no_timeout(src)
         IN  Returned(v \o SeqMap(LAMBDA ln : "HTTP request without timeout at line " \o ToString(ln), lines),
                      Put(m, "requests_no_timeout", lines))

_chk_cognitive_complexity(src, cs, v, m) ==
    IF is_None(cs, "max_cognitive_complexity") THEN Returned(v, m)
    ELSE IF SyntaxError(src) THEN Raised("SyntaxError", v, m)
    ELSE LET max_cc == _max_cognitive_complexity(src)
         IN  Returned(IF max_cc > cs.max_cognitive_complexity
                      THEN Append(v, "Cognitive complexity " \o ToString(max_cc)
                                     \o " > max " \o ToString(cs.max_cognitive_complexity))
                      ELSE v,
                      Put(m, "cognitive_complexity", max_cc))

_chk_local_variables(src, cs, v, m) ==
    IF is_None(cs, "max_local_variables") THEN Returned(v, m)
    ELSE IF SyntaxError(src) THEN Raised("SyntaxError", v, m)
    ELSE LET max_locals == _max_local_variables(src)
         IN  Returned(IF max_locals > cs.max_local_variables
                      THEN Append(v, "Function has " \o ToString(max_locals)
                                     \o " local variables > max " \o ToString(cs.max_local_variables))
                      ELSE v,
                      Put(m, "max_local_variables", max_locals))

_chk_debugger_statements(src, cs, v, m) ==
    IF is_not_True(cs, "no_debugger_statements") THEN Returned(v, m)
    ELSE IF SyntaxError(src) THEN Raised("SyntaxError", v, m)
    ELSE LET lines == _find_debugger_stmts(src)
         IN  Returned(v \o SeqMap(LAMBDA ln : "Debugger statement at line " \o ToString(ln), lines),
                      Put(m, "debugger_statements", lines))

_chk_nested_imports(src, cs, v, m) ==
    IF is_not_True(cs, "no_nested_imports") THEN Returned(v, m)
    ELSE IF SyntaxError(src) THEN Raised("SyntaxError", v, m)
    ELSE LET lines == _find_nested_imports(src)
         IN  Returned(v \o SeqMap(LAMBDA ln : "Nested import at line " \o ToString(ln), lines),
                      Put(m, "nested_imports", lines))

_chk_type_annotations(src, cs, v, m) ==
    IF is_not_True(cs, "require_type_annotations") THEN Returned(v, m)
    ELSE IF SyntaxError(src) THEN Raised("SyntaxError", v, m)
    ELSE LET names == _find_unannotated_fns(src)
         IN  Returned(v \o SeqMap(LAMBDA name : "Missing type annotations in " \o name, names),
                      Put(m, "unannotated_functions", names))

_CHECKERS ==
    <<"_chk_cyclomatic_complexity",
      "_chk_lines_per_function",
      "_chk_total_lines",
      "_chk_docstrings",
      "_chk_time_complexity",
      "_chk_parameters",
      "_chk_nested_depth",
      "_chk_return_statements",
      "_chk_print_statements",
      "_chk_star_imports",
      "_chk_mutable_defaults",
      "_chk_global_state",
      "_chk_allowed_imports",
      "_chk_bare_except",
      "_chk_try_except_pass",
      "_chk_return_in_finally",
      "_chk_unreachable_code",
      "_chk_duplicate_dict_keys",
      "_chk_loop_variable_closure",
      "_chk_mutable_call_defaults",
      "_chk_shadowing_builtins",
      "_chk_open_without_with",
      "_chk_eval",
      "_chk_exec",
      "_chk_unsafe_deserialization",
      "_chk_unsafe_yaml",
      "_chk_shell_true",
      "_chk_hardcoded_secrets",
      "_chk_requests_no_timeout",
      "_chk_cognitive_complexity",
      "_chk_local_variables",
      "_chk_debugger_statements",
      "_chk_nested_imports",
      "_chk_type_annotations">>

\* checker(source_code, cs, violations, metrics) for the checker of that name
call_checker(checker, src, cs, v, m) ==
    CASE checker = "_chk_cyclomatic_complexity" -> _chk_cyclomatic_complexity(src, cs, v, m)
      [] checker = "_chk_lines_per_function" -> _chk_lines_per_function(src, cs, v, m)
      [] checker = "_chk_total_lines" -> _chk_total_lines(src, cs, v, m)
      [] checker = "_chk_docstrings" -> _chk_docstrings(src, cs, v, m)
      [] checker = "_chk_time_complexity" -> _chk_time_complexity(src, cs, v, m)
      [] checker = "_chk_parameters" -> _chk_parameters(src, cs, v, m)
      [] checker = "_chk_nested_depth" -> _chk_nested_depth(src, cs, v, m)
      [] checker = "_chk_return_statements" -> _chk_return_statements(src, cs, v, m)
      [] checker = "_chk_print_statements" -> _chk_print_statements(src, cs, v, m)
      [] checker = "_chk_star_imports" -> _chk_star_imports(src, cs, v, m)
      [] checker = "_chk_mutable_defaults" -> _chk_mutable_defaults(src, cs, v, m)
      [] checker = "_chk_global_state" -> _chk_global_state(src, cs, v, m)
      [] checker = "_chk_allowed_imports" -> _chk_allowed_imports(src, cs, v, m)
      [] checker = "_chk_bare_except" -> _chk_bare_except(src, cs, v, m)
      [] checker = "_chk_try_except_pass" -> _chk_try_except_pass(src, cs, v, m)
      [] checker = "_chk_return_in_finally" -> _chk_return_in_finally(src, cs, v, m)
      [] checker = "_chk_unreachable_code" -> _chk_unreachable_code(src, cs, v, m)
      [] checker = "_chk_duplicate_dict_keys" -> _chk_duplicate_dict_keys(src, cs, v, m)
      [] checker = "_chk_loop_variable_closure" -> _chk_loop_variable_closure(src, cs, v, m)
      [] checker = "_chk_mutable_call_defaults" -> _chk_mutable_call_defaults(src, cs, v, m)
      [] checker = "_chk_shadowing_builtins" -> _chk_shadowing_builtins(src, cs, v, m)
      [] checker = "_chk_open_without_with" -> _chk_open_without_with(src, cs, v, m)
      [] checker = "_chk_eval" -> _chk_eval(src, cs, v, m)
      [] checker = "_chk_exec" -> _chk_exec(src, cs, v, m)
      [] checker = "_chk_unsafe_deserialization" -> _chk_unsafe_deserialization(src, cs, v, m)
      [] checker = "_chk_unsafe_yaml" -> _chk_unsafe_yaml(src, cs, v, m)
      [] checker = "_chk_shell_true" -> _chk_shell_true(src, cs, v, m)
      [] checker = "_chk_hardcoded_secrets" -> _chk_hardcoded_secrets(src, cs, v, m)
      [] checker = "_chk_requests_no_timeout" -> _chk_requests_no_timeout(src, cs, v, m)
      [] checker = "_chk_cognitive_complexity" -> _chk_cognitive_complexity(src, cs, v, m)
      [] checker = "_chk_local_variables" -> _chk_local_variables(src, cs, v, m)
      [] checker = "_chk_debugger_statements" -> _chk_debugger_statements(src, cs, v, m)
      [] checker = "_chk_nested_imports" -> _chk_nested_imports(src, cs, v, m)
      [] checker = "_chk_type_annotations" -> _chk_type_annotations(src, cs, v, m)

(***************************************************************************)
(* The evaluation of one ConstraintSet.                                    *)
(***************************************************************************)

ConstraintResult(passed, violations, metrics) ==
    [passed |-> passed, violations |-> violations, metrics |-> metrics]

\* the registry in two halves, the loop running the first and then the second
FirstHalf(registry) == SubSeq(registry, 1, Len(registry) \div 2)
SecondHalf(registry) == SubSeq(registry, Len(registry) \div 2 + 1, Len(registry))

RECURSIVE run_checkers_stops(_, _, _, _, _)
\* run_checkers ending the loop at the first checker that adds a violation
run_checkers_stops(registry, src, cs, v, m) ==
    IF registry = <<>> \/ v # <<>> THEN Returned(v, m)
    ELSE IF Len(registry) = 1 THEN call_checker(registry[1], src, cs, v, m)
    ELSE LET rest(r) == IF r.exc # "" THEN r
                        ELSE run_checkers_stops(SecondHalf(registry), src, cs, r.v, r.m)
         IN  Once(run_checkers_stops(FirstHalf(registry), src, cs, v, m), rest)

RECURSIVE run_checkers_prepends(_, _, _, _, _)
\* run_checkers with each checker's violations put before the earlier ones
run_checkers_prepends(registry, src, cs, v, m) ==
    IF registry = <<>> THEN Returned(v, m)
    ELSE IF Len(registry) = 1
    THEN LET put(r) == IF r.exc # "" THEN r ELSE Returned(r.v \o v, r.m)
         IN  Once(call_checker(registry[1], src, cs, <<>>, m), put)
    ELSE LET rest(r) == IF r.exc # "" THEN r
                        ELSE run_checkers_prepends(SecondHalf(registry), src, cs, r.v, r.m)
         IN  Once(run_checkers_prepends(FirstHalf(registry), src, cs, v, m), rest)

RECURSIVE run_checkers(_, _, _, _, _)
\* for checker in _CHECKERS: checker(source_code, cs, violations, metrics);
\* a checker that raises ends the loop.  The loop over a registry is the loop
\* over its first half followed, from the violations and metrics that one
\* leaves, by the loop over its second half.
run_checkers(registry, src, cs, v, m) ==
    IF registry = <<>> THEN Returned(v, m)
    ELSE IF Len(registry) = 1 THEN call_checker(registry[1], src, cs, v, m)
    ELSE LET rest(r) == IF r.exc # "" THEN r
                        ELSE run_checkers(SecondHalf(registry), src, cs, r.v, r.m)
         IN  Once(run_checkers(FirstHalf(registry), src, cs, v, m), rest)

\* the ConstraintResult _evaluate returns, or the record of the exception
\* that leaves it
_evaluate(src, cs) ==
    LET result(r) == IF r.exc # "" THEN [raised |-> r.exc]
                     ELSE ConstraintResult(Len(r.v) = 0, r.v, r.m)
    IN  Once(run_checkers(checkers, src, cs, <<>>, <<>>), result)

\* the call returned a ConstraintResult
is_result(r) == "passed" \in DOMAIN r

(***************************************************************************)
(* The ConstraintSets and TaskConstraints the model calls with.            *)
(***************************************************************************)

\* the largest integer threshold given to a field
MaxThreshold == 3

\* the most fields set together in a ConstraintSet of MixedSets
MaxChecked == 2

\* the thresholds of the ConstraintSets in which every field is set
FullThresholds == {1, MaxThreshold}

\* the fields of ConstraintSet with, for each, the floor pydantic enforces
IntFields ==
    [max_cyclomatic_complexity |-> 1, max_lines_per_function |-> 1,
     max_total_lines |-> 1, max_parameters |-> 0, max_nested_depth |-> 1,
     max_return_statements |-> 1, max_cognitive_complexity |-> 1,
     max_local_variables |-> 1]

BoolFields ==
    {"require_docstrings", "no_print_statements", "no_star_imports",
     "no_mutable_defaults", "no_global_state", "no_bare_except",
     "no_try_except_pass", "no_return_in_finally", "no_unreachable_code",
     "no_duplicate_dict_keys", "no_loop_variable_closure",
     "no_mutable_call_in_defaults", "no_shadowing_builtins",
     "no_open_without_context_manager", "no_eval", "no_exec",
     "no_unsafe_deserialization", "no_unsafe_yaml", "no_shell_true",
     "no_hardcoded_secrets", "no_requests_without_timeout",
     "no_debugger_statements", "no_nested_imports", "require_type_annotations"}

Fields == DOMAIN IntFields \cup BoolFields \cup {"max_time_complexity", "allowed_imports"}

\* the values the model gives to a field
FieldValues(field) ==
    CASE field \in DOMAIN IntFields -> IntFields[field]..MaxThreshold
      [] field \in BoolFields -> BOOLEAN
      [] field = "max_time_complexity" ->
            {"O(1)", "O(n)", "O(n^2)", "O(n^3)", "O(2^n)", "O(n^4)"}
      [] field = "allowed_imports" -> {<<>>, <<"os">>}

\* the strictest value of a field
Strictest(field) ==
    CASE field \in DOMAIN IntFields -> IntFields[field]
      [] field \in BoolFields -> TRUE
      [] field = "max_time_complexity" -> "O(1)"
      [] field = "allowed_imports" -> <<>>

\* ConstraintSet(): every field None
NoConstraints == <<>>

\* ConstraintSets with exactly one field set
SingleSets ==
    UNION { { (field :> value) : value \in FieldValues(field) } : field \in Fields }

\* the fields that MixedSets sets together: some of each kind
MixedFields ==
    {"max_cyclomatic_complexity", "max_total_lines", "max_parameters",
     "max_time_complexity", "allowed_imports", "require_docstrings",
     "no_print_statements", "no_global_state", "no_bare_except", "no_eval",
     "no_hardcoded_secrets", "require_type_annotations"}

RECURSIVE StrictSets(_)
\* ConstraintSets with at most k of MixedFields set, each to its strictest
\* value
StrictSets(k) ==
    IF k = 0 THEN {NoConstraints}
    ELSE LET prev == StrictSets(k - 1)
         IN  prev \cup { (field :> Strictest(field)) @@ cs :
                            field \in MixedFields, cs \in prev }

MixedSets == StrictSets(MaxChecked)

\* ConstraintSets with every field set: integer thresholds t, toggles on
FullSet(t, time, imports) ==
    [field \in Fields |->
        CASE field \in DOMAIN IntFields -> max(t, IntFields[field])
          [] field \in BoolFields -> TRUE
          [] field = "max_time_complexity" -> time
          [] field = "allowed_imports" -> imports]

FullSets ==
    { FullSet(t, time, <<>>) : t \in FullThresholds, time \in {"O(1)", "O(n^2)"} }

ConstraintSets == SingleSets \cup MixedSets \cup FullSets

\* the ConstraintSets set against each of the others in the other gate
GateSets ==
    {NoConstraints, [max_parameters |-> 1, no_print_statements |-> TRUE],
     FullSet(1, "O(1)", <<>>)}

TaskConstraints(primary_, secondary_) == [primary |-> primary_, secondary |-> secondary_]

TaskConstraintsSet ==
    { TaskConstraints(p, s) : p \in ConstraintSets, s \in GateSets }
    \cup { TaskConstraints(p, s) : p \in GateSets, s \in ConstraintSets }

(***************************************************************************)
(* check_constraints, one action per statement.  pc is the position of the *)
(* call: "idle" before it, "primary" at the evaluation of the primary      *)
(* gate, "gate" at the test of primary.passed, "done" at the return and    *)
(* "raised" when an exception has left the call.                           *)
(***************************************************************************)

Init ==
    /\ pc = "idle"
    /\ source_code = None
    /\ constraints = None
    /\ primary = None
    /\ secondary = None
    /\ checkers = _CHECKERS
    /\ secondary_runs = 0
    /\ memo = None
    /\ profiles_data = None
    /\ profiles = None
    /\ request = None
    /\ resolved = None
    /\ session_pc = "stopped"
    /\ state = None
    /\ session_file = None
    /\ index = 0
    /\ config = None
    /\ cycle = 0
    /\ attempt = 0
    /\ test_source = None
    /\ approved_source = None
    /\ process_calls = None
    /\ impl_pc = "idle"
    /\ generated_paths = <<>>
    /\ max_attempts = 0
    /\ error_feedback = ""
    /\ agent_runs = <<>>
    /\ success = None

\* a caller calls check_constraints(src, tc)
Call(src, tc) ==
    /\ pc = "idle"
    /\ pc' = "primary"
    /\ source_code' = src
    /\ constraints' = tc
    /\ primary' = None
    /\ secondary' = None
    /\ secondary_runs' = 0
    /\ UNCHANGED <<checkers, memo>>
    /\ UNCHANGED <<loader_vars, caller_vars>>

\* EvaluatePrimary with the evaluation consuming the registry it iterates
EvaluatePrimary_consumes ==
    /\ pc = "primary"
    /\ primary' = _evaluate(Texts[source_code], constraints.primary)
    /\ checkers' = Tail(checkers)
    /\ pc' = IF is_result(primary') THEN "gate" ELSE "raised"
    /\ UNCHANGED <<source_code, constraints, secondary, secondary_runs, memo>>
    /\ UNCHANGED <<loader_vars, caller_vars>>

\* primary = _evaluate(Texts[source_code], constraints.primary)
EvaluatePrimary ==
    /\ pc = "primary"
    /\ primary' = _evaluate(Texts[source_code], constraints.primary)
    /\ pc' = IF is_result(primary') THEN "gate" ELSE "raised"
    /\ UNCHANGED <<source_code, constraints, secondary, checkers, secondary_runs, memo>>
    /\ UNCHANGED <<loader_vars, caller_vars>>

\* SkipSecondary with the secondary set evaluated although the primary failed
SkipSecondary_evaluates ==
    /\ pc = "gate"
    /\ ~primary.passed
    /\ secondary' = _evaluate(Texts[source_code], constraints.secondary)
    /\ secondary_runs' = secondary_runs + Len(checkers)
    /\ pc' = IF is_result(secondary') THEN "done" ELSE "raised"
    /\ UNCHANGED <<source_code, constraints, primary, checkers, memo>>
    /\ UNCHANGED <<loader_vars, caller_vars>>

\* SkipSecondary with the synthesized result taking the primary's passed flag
SkipSecondary_copies_passed ==
    /\ pc = "gate"
    /\ ~primary.passed
    /\ secondary' = ConstraintResult(primary.passed, <<>>, <<>>)
    /\ pc' = "done"
    /\ UNCHANGED <<source_code, constraints, primary, checkers, secondary_runs, memo>>
    /\ UNCHANGED <<loader_vars, caller_vars>>

\* if not primary.passed: secondary = ConstraintResult(passed=True, ...)
SkipSecondary ==
    /\ pc = "gate"
    /\ ~primary.passed
    /\ secondary' = ConstraintResult(TRUE, <<>>, <<>>)
    /\ pc' = "done"
    /\ UNCHANGED <<source_code, constraints, primary, checkers, secondary_runs, memo>>
    /\ UNCHANGED <<loader_vars, caller_vars>>

\* EvaluateSecondary with the secondary gate going on from the violations and
\* metrics of the primary gate
EvaluateSecondary_shared ==
    /\ pc = "gate"
    /\ primary.passed
    /\ LET r == run_checkers(checkers, Texts[source_code], constraints.secondary,
                             primary.violations, primary.metrics)
       IN  secondary' = IF r.exc # "" THEN [raised |-> r.exc]
                        ELSE ConstraintResult(Len(r.v) = 0, r.v, r.m)
    /\ secondary_runs' = secondary_runs + Len(checkers)
    /\ pc' = IF is_result(secondary') THEN "done" ELSE "raised"
    /\ UNCHANGED <<source_code, constraints, primary, checkers, memo>>
    /\ UNCHANGED <<loader_vars, caller_vars>>

\* else: secondary = _evaluate(Texts[source_code], constraints.secondary)
EvaluateSecondary ==
    /\ pc = "gate"
    /\ primary.passed
    /\ secondary' = _evaluate(Texts[source_code], constraints.secondary)
    /\ secondary_runs' = secondary_runs + Len(checkers)
    /\ pc' = IF is_result(secondary') THEN "done" ELSE "raised"
    /\ UNCHANGED <<source_code, constraints, primary, checkers, memo>>
    /\ UNCHANGED <<loader_vars, caller_vars>>

\* return primary, secondary; or the exception reaches the caller
Return ==
    /\ pc \in {"done", "raised"}
    /\ pc' = "idle"
    /\ source_code' = None
    /\ constraints' = None
    /\ primary' = None
    /\ secondary' = None
    /\ secondary_runs' = 0
    /\ UNCHANGED <<checkers, memo>>
    /\ UNCHANGED <<loader_vars, caller_vars>>

Next ==
    \/ \E src \in DOMAIN Corpus, tc \in TaskConstraintsSet : Call(src, tc)
    \/ EvaluatePrimary
    \/ SkipSecondary
    \/ EvaluateSecondary
    \/ Return

Spec == Init /\ [][Next]_vars

(***************************************************************************)
(* A caller that keeps what one call gave and calls again.                 *)
(***************************************************************************)

\* what the call at pc "done" or "raised" hands to its caller: the tuple
\* (primary, secondary), or the exception in place of the gate that raised
Outcome == <<primary, secondary>>

\* primary, secondary = check_constraints(test_source, constraints): the
\* caller keeps the arguments and the outcome of this call
Remember ==
    /\ pc \in {"done", "raised"}
    /\ memo = None
    /\ memo' = [source_code |-> source_code, constraints |-> constraints,
                outcome |-> Outcome]
    /\ UNCHANGED <<pc, source_code, constraints, primary, secondary, checkers,
                   secondary_runs>>
    /\ UNCHANGED <<loader_vars, caller_vars>>

\* the TaskConstraints of the repeated calls
RepeatedConstraints == { TaskConstraints(p, s) : p \in GateSets, s \in GateSets }

NextRepeated ==
    \/ \E src \in DOMAIN Corpus, tc \in RepeatedConstraints : Call(src, tc)
    \/ EvaluatePrimary
    \/ SkipSecondary
    \/ EvaluateSecondary
    \/ Remember
    \/ Return

SpecRepeated == Init /\ [][NextRepeated]_vars

(***************************************************************************)
(* The profile loader (constraint_loader.py).  A call that raises gives    *)
(* the record of its exception, [raised |-> class, message |-> text].      *)
(***************************************************************************)

\* d.get(key, default)
get(d, key, default) == IF key \in DOMAIN d THEN d[key] ELSE default

\* an exception of the class with the message
Raise(class, message) == [raised |-> class, message |-> message]

\* ConstraintSet(**data): pydantic checks each integer threshold against the
\* ge of its Field and ignores the keys that are no fields
ConstraintSet(data) ==
    IF \E field \in DOMAIN data \cap DOMAIN IntFields : data[field] < IntFields[field]
    THEN Raise("ValidationError", "Input should be greater than or equal to")
    ELSE [field \in DOMAIN data \cap Fields |-> data[field]]

\* TaskConstraints(primary=..., secondary=..., target_files=..., guidance=...),
\* the arguments evaluated first: a ConstraintSet that raised ends the call
TaskConstraintsWith(primary_, secondary_, target_files, guidance) ==
    IF "raised" \in DOMAIN primary_ THEN primary_
    ELSE IF "raised" \in DOMAIN secondary_ THEN secondary_
    ELSE [primary |-> primary_, secondary |-> secondary_,
          target_files |-> target_files, guidance |-> guidance]

\* load_profiles, given what yaml.safe_load read from the file
load_profiles(data) ==
    IF DOMAIN data = {} THEN Raise("ValueError", "Profiles file is empty")
    ELSE Put(get(data, "profiles", <<>>), "functions", get(data, "functions", <<>>))

\* _select_profile_name with the task-level profile for every scope
_select_profile_name_task(spec, function_name) ==
    spec.constraint_profile

_select_profile_name(spec, function_name) ==
    IF function_name = <<>> THEN spec.constraint_profile
    ELSE LET own(function_spec) ==
                 /\ function_spec.name = function_name[1]
                 /\ function_spec.constraint_profile \notin {<<>>, <<"">>}
             found == SelectSeq(spec.functions, own)
         IN  IF found # <<>> THEN found[1].constraint_profile[1]
             ELSE spec.constraint_profile

\* _merge_function_overrides with the override's sets taking the place of the
\* base sets
_merge_function_overrides_replaces(base, overrides) ==
    TaskConstraintsWith(ConstraintSet(get(overrides, "primary", base.primary)),
                        ConstraintSet(get(overrides, "secondary", base.secondary)),
                        base.target_files,
                        IF "guidance" \in DOMAIN overrides THEN overrides.guidance
                        ELSE base.guidance)

\* _merge_function_overrides with the override's guidance added to the base's
_merge_function_overrides_appends(base, overrides) ==
    TaskConstraintsWith(ConstraintSet(get(overrides, "primary", <<>>) @@ base.primary),
                        ConstraintSet(get(overrides, "secondary", <<>>) @@ base.secondary),
                        base.target_files,
                        base.guidance \o get(overrides, "guidance", <<>>))

\* _merge_function_overrides with the merged data kept as it is, unvalidated
_merge_function_overrides_unchecked(base, overrides) ==
    TaskConstraintsWith(get(overrides, "primary", <<>>) @@ base.primary,
                        get(overrides, "secondary", <<>>) @@ base.secondary,
                        base.target_files,
                        IF "guidance" \in DOMAIN overrides THEN overrides.guidance
                        ELSE base.guidance)

\* model_dump() gives the fields of the base set, update() lays the
\* override's over them
_merge_function_overrides(base, overrides) ==
    LET primary_data == get(overrides, "primary", <<>>) @@ base.primary
        secondary_data == get(overrides, "secondary", <<>>) @@ base.secondary
        guidance == IF "guidance" \in DOMAIN overrides THEN overrides.guidance
                    ELSE base.guidance
    IN  TaskConstraintsWith(ConstraintSet(primary_data), ConstraintSet(secondary_data),
                            base.target_files, guidance)

\* function_name or spec.name
resolved_function(spec, function_name) ==
    IF function_name \in {<<>>, <<"">>} THEN spec.name ELSE function_name[1]

resolve_constraints(spec, table, function_name) ==
    LET profile_name == _select_profile_name(spec, function_name)
        profile_data == table[profile_name]
        base_constraints ==
            TaskConstraintsWith(ConstraintSet(get(profile_data, "primary", <<>>)),
                                ConstraintSet(get(profile_data, "secondary", <<>>)),
                                spec.target_files, get(profile_data, "guidance", <<>>))
        function_overrides ==
            get(table.functions, resolved_function(spec, function_name), <<>>)
    IN  IF profile_name \notin DOMAIN table
        THEN Raise("ValueError", "Unknown constraint profile: " \o profile_name)
        ELSE IF "raised" \in DOMAIN base_constraints \/ DOMAIN function_overrides = {}
        THEN base_constraints
        ELSE _merge_function_overrides(base_constraints, function_overrides)

(***************************************************************************)
(* The profiles files, the task specifications and the calls of the        *)
(* loader.                                                                 *)
(***************************************************************************)

\* the profiles a file may define
DefinedProfiles ==
    [default |->
        [primary |-> [max_cyclomatic_complexity |-> 3, max_lines_per_function |-> 3],
         secondary |-> [require_docstrings |-> TRUE],
         guidance |-> <<"Prefer early returns over nested if/else.",
                        "Avoid inline comments unless ambiguous.">>],
     strict |->
        [primary |-> [max_cyclomatic_complexity |-> 1, max_parameters |-> 0],
         secondary |-> [require_docstrings |-> TRUE, no_print_statements |-> TRUE]],
     loose |->
        [primary |-> [max_total_lines |-> 0],
         guidance |-> <<"Anything goes.">>]]

\* the function overrides a file may define
DefinedOverrides ==
    [add |-> [primary |-> [max_cyclomatic_complexity |-> 2]],
     login |->
        [secondary |-> [max_total_lines |-> 2, require_docstrings |-> FALSE],
         guidance |-> <<"Custom guidance for login.">>],
     logout |-> [guidance |-> <<>>],
     task |-> [primary |-> [max_nested_depth |-> 0]]]

\* d with only the keys in keys
Only(d, keys) == [key \in keys |-> d[key]]

\* what yaml.safe_load may give for a profiles file
ProfilesFiles ==
    {<<>>, [functions |-> Only(DefinedOverrides, {"add", "login"})]}
    \cup { [profiles |-> Only(DefinedProfiles, names)] :
              names \in {{"default"}, {"default", "strict"}, {"default", "strict", "loose"}} }
    \cup { [profiles |-> Only(DefinedProfiles, names),
            functions |-> Only(DefinedOverrides, functions)] :
              names \in {{"default"}, {"default", "strict"}, {"default", "strict", "loose"}},
              functions \in {{"add", "login", "logout"}, {"add", "login", "logout", "task"}} }

\* FunctionSpec(name=..., constraint_profile=...)
FunctionSpec(name, constraint_profile) ==
    [name |-> name, constraint_profile |-> constraint_profile]

\* ParsedSpec(name=..., constraint_profile=..., target_files=..., functions=...)
ParsedSpec(name, constraint_profile, functions) ==
    [name |-> name, constraint_profile |-> constraint_profile,
     target_files |-> <<"src/app.py">>, functions |-> functions]

ParsedSpecs ==
    { ParsedSpec(name, constraint_profile, functions) :
        name \in {"add", "task"},
        constraint_profile \in {"default", "strict", "loose", "nonexistent", "functions"},
        functions \in {<<>>,
                       <<FunctionSpec("login", <<"strict">>), FunctionSpec("logout", <<>>)>>,
                       <<FunctionSpec("login", <<>>), FunctionSpec("login", <<"nonexistent">>)>>} }

FunctionNames == {<<>>, <<"login">>, <<"logout">>, <<"add">>}

\* the sources checked against resolved constraints
ResolvedSources == {"tiny", "branchy"}

\* profiles = load_profiles(profiles_path)
LoadProfiles(data) ==
    /\ pc = "idle"
    /\ profiles_data' = data
    /\ profiles' = load_profiles(data)
    /\ request' = None
    /\ resolved' = None
    /\ UNCHANGED <<pc, source_code, constraints, primary, secondary, checkers,
                   secondary_runs, memo>>
    /\ UNCHANGED caller_vars

\* the profiles are loaded
Loaded == "functions" \in DOMAIN profiles

\* constraints = resolve_constraints(spec, profiles, function_name)
Resolve(spec, function_name) ==
    /\ pc = "idle"
    /\ Loaded
    /\ request' = [spec |-> spec, function_name |-> function_name]
    /\ resolved' = [profile_name |-> _select_profile_name(spec, function_name),
                    outcome |-> resolve_constraints(spec, profiles, function_name)]
    /\ UNCHANGED <<pc, source_code, constraints, primary, secondary, checkers,
                   secondary_runs, memo, profiles_data, profiles>>
    /\ UNCHANGED caller_vars

\* resolve_constraints returned TaskConstraints
Resolved == "outcome" \in DOMAIN resolved /\ "primary" \in DOMAIN resolved.outcome

\* check_constraints(test_source, constraints) with the resolved constraints
CheckResolved(src) ==
    /\ Resolved
    /\ Call(src, resolved.outcome)

\* the keyword arguments of a ConstraintSet constructed directly
DirectData ==
    {[max_cyclomatic_complexity |-> -1], [max_lines_per_function |-> 0],
     [max_parameters |-> -1], [max_parameters |-> 0],
     [max_nested_depth |-> 1, max_local_variables |-> 0],
     [max_return_statements |-> 1, max_cognitive_complexity |-> 1],
     [max_total_lines |-> 2, no_print_statements |-> TRUE]}

\* check_constraints(test_source, TaskConstraints(primary=ConstraintSet(**data),
\* secondary=ConstraintSet())): a ConstraintSet that raises ends the caller
CheckDirect(src, data) ==
    /\ "raised" \notin DOMAIN ConstraintSet(data)
    /\ Call(src, TaskConstraints(ConstraintSet(data), NoConstraints))

NextResolved ==
    \/ \E data \in ProfilesFiles : LoadProfiles(data)
    \/ \E src \in ResolvedSources, data \in DirectData : CheckDirect(src, data)
    \/ \E spec \in ParsedSpecs, function_name \in FunctionNames :
          Resolve(spec, function_name)
    \/ \E src \in ResolvedSources : CheckResolved(src)
    \/ EvaluatePrimary
    \/ SkipSecondary
    \/ EvaluateSecondary
    \/ Return

SpecResolved == Init /\ [][NextResolved]_vars

(***************************************************************************)
(* What each checker reads and records.                                    *)
(***************************************************************************)

\* the field of the ConstraintSet that governs each checker
GoverningField ==
    [_chk_cyclomatic_complexity |-> "max_cyclomatic_complexity",
     _chk_lines_per_function |-> "max_lines_per_function",
     _chk_total_lines |-> "max_total_lines", _chk_docstrings |-> "require_docstrings",
     _chk_time_complexity |-> "max_time_complexity",
     _chk_parameters |-> "max_parameters", _chk_nested_depth |-> "max_nested_depth",
     _chk_return_statements |-> "max_return_statements",
     _chk_print_statements |-> "no_print_statements",
     _chk_star_imports |-> "no_star_imports",
     _chk_mutable_defaults |-> "no_mutable_defaults",
     _chk_global_state |-> "no_global_state",
     _chk_allowed_imports |-> "allowed_imports", _chk_bare_except |-> "no_bare_except",
     _chk_try_except_pass |-> "no_try_except_pass",
     _chk_return_in_finally |-> "no_return_in_finally",
     _chk_unreachable_code |-> "no_unreachable_code",
     _chk_duplicate_dict_keys |-> "no_duplicate_dict_keys",
     _chk_loop_variable_closure |-> "no_loop_variable_closure",
     _chk_mutable_call_defaults |-> "no_mutable_call_in_defaults",
     _chk_shadowing_builtins |-> "no_shadowing_builtins",
     _chk_open_without_with |-> "no_open_without_context_manager",
     _chk_eval |-> "no_eval", _chk_exec |-> "no_exec",
     _chk_unsafe_deserialization |-> "no_unsafe_deserialization",
     _chk_unsafe_yaml |-> "no_unsafe_yaml", _chk_shell_true |-> "no_shell_true",
     _chk_hardcoded_secrets |-> "no_hardcoded_secrets",
     _chk_requests_no_timeout |-> "no_requests_without_timeout",
     _chk_cognitive_complexity |-> "max_cognitive_complexity",
     _chk_local_variables |-> "max_local_variables",
     _chk_debugger_statements |-> "no_debugger_statements",
     _chk_nested_imports |-> "no_nested_imports",
     _chk_type_annotations |-> "require_type_annotations"]

\* the key under which each checker records its metric
MetricName ==
    [_chk_cyclomatic_complexity |-> "cyclomatic_complexity",
     _chk_lines_per_function |-> "lines_per_function",
     _chk_total_lines |-> "total_lines", _chk_docstrings |-> "missing_docstrings",
     _chk_time_complexity |-> "time_complexity", _chk_parameters |-> "max_parameters",
     _chk_nested_depth |-> "max_nested_depth",
     _chk_return_statements |-> "max_return_statements",
     _chk_print_statements |-> "print_statements", _chk_star_imports |-> "star_imports",
     _chk_mutable_defaults |-> "mutable_defaults", _chk_global_state |-> "global_state",
     _chk_allowed_imports |-> "forbidden_imports", _chk_bare_except |-> "bare_excepts",
     _chk_try_except_pass |-> "try_except_pass",
     _chk_return_in_finally |-> "return_in_finally",
     _chk_unreachable_code |-> "unreachable_code",
     _chk_duplicate_dict_keys |-> "duplicate_dict_keys",
     _chk_loop_variable_closure |-> "loop_variable_closures",
     _chk_mutable_call_defaults |-> "mutable_call_defaults",
     _chk_shadowing_builtins |-> "shadowed_builtins",
     _chk_open_without_with |-> "open_without_with", _chk_eval |-> "eval_calls",
     _chk_exec |-> "exec_calls",
     _chk_unsafe_deserialization |-> "unsafe_deserialization",
     _chk_unsafe_yaml |-> "unsafe_yaml", _chk_shell_true |-> "shell_true",
     _chk_hardcoded_secrets |-> "hardcoded_secrets",
     _chk_requests_no_timeout |-> "requests_no_timeout",
     _chk_cognitive_complexity |-> "cognitive_complexity",
     _chk_local_variables |-> "max_local_variables",
     _chk_debugger_statements |-> "debugger_statements",
     _chk_nested_imports |-> "nested_imports",
     _chk_type_annotations |-> "unannotated_functions"]

\* the checker's dimension is checked: its threshold or list is not None, or
\* its toggle is exactly True
Checked(cs, checker) ==
    LET field == GoverningField[checker]
    IN  /\ field \in DOMAIN cs
        /\ field \in BoolFields => cs[field] = TRUE

\* the checker called on its own, with no violations or metrics gathered yet
Alone(checker, src, cs) == call_checker(checker, src, cs, <<>>, <<>>)

\* the elements of a list
Range(s) == { s[i] : i \in 1..Len(s) }

\* the gates of the current call that have returned a result, each with the
\* ConstraintSet it evaluated
GatesRun ==
    (IF pc \in {"gate", "done"}
     THEN {[cs |-> constraints.primary, result |-> primary]} ELSE {})
    \cup (IF pc = "done" /\ primary.passed
          THEN {[cs |-> constraints.secondary, result |-> secondary]} ELSE {})

\* the vacuous passing result
Vacuous(result) ==
    /\ result.passed = TRUE
    /\ result.violations = <<>>
    /\ DOMAIN result.metrics = {}

(***************************************************************************)
(* The claims about check_constraints and _evaluate.                       *)
(***************************************************************************)

\* C1: when the primary ConstraintSet produces at least one violation, the
\* secondary result that check_constraints returns is exactly passed=True,
\* violations=[], metrics={}, and no checker was called on the secondary
\* ConstraintSet, also when that set would itself fail on the source.
C1_ShortCircuit ==
    pc = "done" /\ Len(primary.violations) > 0
        => Vacuous(secondary) /\ secondary_runs = 0

\* the primary gate failed and the secondary set, evaluated, would fail too
C1_Witness ==
    /\ pc = "done"
    /\ Len(primary.violations) > 0
    /\ LET alone == _evaluate(Texts[source_code], constraints.secondary)
       IN  is_result(alone) /\ Len(alone.violations) > 0

\* C2: the primary ConstraintSet is always evaluated; the primary result is
\* what evaluating the primary set alone gives, whatever the secondary set
\* is, and when the primary result passes the secondary result is what
\* evaluating the secondary set on its own against the same source gives:
\* the same passed flag, violations in the same order and metrics.
C2_SecondaryEvaluatedAlone ==
    /\ pc \in {"gate", "done"} => primary = _evaluate(Texts[source_code], constraints.primary)
    /\ pc = "done" /\ primary.passed
            => secondary = _evaluate(Texts[source_code], constraints.secondary)

\* the primary gate passed having recorded metrics, and the secondary gate
\* failed
C2_Witness ==
    /\ pc = "done"
    /\ primary.passed
    /\ DOMAIN primary.metrics # {}
    /\ Len(secondary.violations) > 0
    /\ DOMAIN secondary.metrics # DOMAIN primary.metrics

\* C3: for a source that parses, a ConstraintSet whose every field is None
\* evaluates to passed=True, violations=[], metrics={}.
C3_AllNoneIsVacuous ==
    \A gate \in GatesRun :
        DOMAIN gate.cs = {} /\ ~SyntaxError(Texts[source_code]) => Vacuous(gate.result)

\* an all-None primary set was evaluated on a source that has functions, and
\* the secondary set, which is not all None, then failed on it
C3_Witness ==
    /\ pc = "done"
    /\ DOMAIN constraints.primary = {}
    /\ ~SyntaxError(Texts[source_code])
    /\ tree_functions[source_code] # <<>>
    /\ Vacuous(primary)
    /\ Len(secondary.violations) > 0

\* C4: after a ConstraintSet is evaluated on a source that parses, the keys
\* of the result's metrics are exactly the metric names of the dimensions
\* whose governing field is set (a threshold or list that is not None, a
\* toggle that is exactly True), whether the dimension passes or fails; an
\* unset dimension (None, or a toggle set to False) records no metric and
\* contributes no violation.
C4_MetricsOfCheckedDimensions ==
    \A gate \in GatesRun :
        LET checked == { c \in Range(_CHECKERS) : Checked(gate.cs, c) }
        IN  /\ DOMAIN gate.result.metrics = { MetricName[c] : c \in checked }
            /\ Range(gate.result.violations)
                 \subseteq UNION { Range(Alone(c, Texts[source_code], gate.cs).v) : c \in checked }

\* the primary gate passed with a metric recorded for a checked dimension,
\* and the secondary set is a toggle set to False, on a source on which that
\* toggle set to True finds something
C4_Witness ==
    /\ pc = "done"
    /\ primary.passed
    /\ DOMAIN primary.metrics # {}
    /\ \E field \in DOMAIN constraints.secondary \cap BoolFields :
          /\ constraints.secondary[field] = FALSE
          /\ ~_evaluate(Texts[source_code], (field :> TRUE)).passed
    /\ Vacuous(secondary)

\* C5: every ConstraintResult check_constraints holds or returns, the primary
\* one, the evaluated secondary one and the synthesized vacuous secondary
\* one, has passed == (violations is empty).
C5_PassedIffNoViolations ==
    /\ pc \in {"gate", "done"} => (primary.passed <=> Len(primary.violations) = 0)
    /\ pc = "done" => (secondary.passed <=> Len(secondary.violations) = 0)

\* a call returned a failed primary result with several violations and the
\* synthesized secondary result
C5_Witness ==
    /\ pc = "done"
    /\ ~primary.passed
    /\ Len(primary.violations) > 1
    /\ secondary.passed
    /\ secondary_runs = 0

\* C6: for a source that does not parse and any ConstraintSet, whatever
\* fields are set, evaluation fails with the parse failure and returns no
\* ConstraintResult.
C6_InvalidSourceNeverEvaluates ==
    pc # "idle" /\ SyntaxError(Texts[source_code])
        => /\ pc \in {"primary", "raised"}
           /\ pc = "raised" => primary = [raised |-> "SyntaxError"]

\* the checked dimension of the checker is exceeded, going by the metric the
\* checker records when called on its own (own): a number above its
\* threshold, a time class ranked above the threshold's, or a list of
\* findings that is not empty
Exceeded(cs, checker, own) ==
    LET field == GoverningField[checker]
        metric == own.m[MetricName[checker]]
    IN  CASE field \in DOMAIN IntFields -> metric > cs[field]
          [] field = "max_time_complexity" ->
                _complexity_rank(metric) > _complexity_rank(cs[field])
          [] OTHER -> Len(metric) > 0

\* the checked dimension of the checker has a number for metric, equal to
\* its threshold
AtThreshold(cs, checker, own) ==
    /\ GoverningField[checker] \in DOMAIN IntFields
    /\ own.m[MetricName[checker]] = cs[GoverningField[checker]]

\* the violations of the checker, called on its own, that the result holds
Contributed(result, own) == Range(own.v) \cap Range(result.violations)

\* C7: a gate that runs does not stop at the first violation: every checked
\* dimension whose metric is above its threshold, or whose detector finds
\* something, contributes at least one violation to the result, however many
\* earlier checkers failed; a metric equal to its threshold contributes none.
C7_ViolationsComplete ==
    \A gate \in GatesRun :
        \A c \in { k \in Range(_CHECKERS) : Checked(gate.cs, k) } :
            \A own \in {Alone(c, Texts[source_code], gate.cs)} :
                /\ Exceeded(gate.cs, c, own) => Contributed(gate.result, own) # {}
                /\ AtThreshold(gate.cs, c, own) => Contributed(gate.result, own) = {}

\* in one gate three checkers contributed violations and a fourth, checked,
\* has its metric equal to its threshold
C7_Witness ==
    /\ pc = "done"
    /\ Len(primary.violations) >= 3
    /\ LET checked == { k \in Range(_CHECKERS) : Checked(constraints.primary, k) }
           contributing ==
              { c \in checked :
                  Contributed(primary, Alone(c, Texts[source_code], constraints.primary)) # {} }
       IN  /\ Cardinality(contributing) >= 3
           /\ \E c \in checked :
                 AtThreshold(constraints.primary, c, Alone(c, Texts[source_code], constraints.primary))

\* the violations the checkers give when each is called on its own, in the
\* order of the registry
InRegistryOrder(src, cs) ==
    Concat([i \in 1..Len(_CHECKERS) |-> Alone(_CHECKERS[i], src, cs).v])

\* C8: the violations of a result are in the fixed order of the registry:
\* those of an earlier-registered checker all come before those of a later
\* one, so a source and a ConstraintSet always give the same sequence.
C8_RegistryOrder ==
    \A gate \in GatesRun :
        gate.result.violations = InRegistryOrder(Texts[source_code], gate.cs)

\* a result holds violations of an earlier and of a later checker, the
\* earlier one contributing more than one
C8_Witness ==
    /\ pc = "done"
    /\ \E i, j \in 1..Len(_CHECKERS) :
          /\ i < j
          /\ Len(Alone(_CHECKERS[i], Texts[source_code], constraints.primary).v) > 1
          /\ Len(Alone(_CHECKERS[j], Texts[source_code], constraints.primary).v) > 0
    /\ Len(primary.violations) > 2

\* the call that is finishing has the arguments of the call the caller kept
SameArguments ==
    /\ pc \in {"done", "raised"}
    /\ memo # None
    /\ memo.source_code = source_code
    /\ memo.constraints = constraints

\* a step of a call in progress leaves its arguments and the registry alone
ArgumentsKept ==
    pc \in {"primary", "gate"} => UNCHANGED <<source_code, constraints, checkers>>

C10_CyclomaticFloor ==
    \A gate \in GatesRun :
        "max_cyclomatic_complexity" \in DOMAIN gate.cs =>
            /\ "cyclomatic_complexity" \in DOMAIN gate.result.metrics
            /\ gate.result.metrics.cyclomatic_complexity >= 1
            /\ tree_functions[source_code] = <<>>
                  => gate.result.metrics.cyclomatic_complexity = 1

(***************************************************************************)
(* The claims about the metric extractors.                                 *)
(***************************************************************************)

RECURSIVE LoopNesting(_)
\* the most for/while loops on a path of the tree that starts at the node
LoopNesting(node) ==
    LET below(child) == LoopNesting(child)
    IN  (IF node.cls \in {"For", "While"} THEN 1 ELSE 0)
        + MaxFrom(0, SeqMap(below, iter_child_nodes(node)))

\* the greatest loop nesting depth over the functions of the source
LoopDepth(src) == MaxFrom(0, SeqMap(LoopNesting, tree_functions[src]))

\* the class the table gives a depth
ClassOfDepth(d) ==
    CASE d = 0 -> "O(1)"
      [] d = 1 -> "O(n)"
      [] d = 2 -> "O(n^2)"
      [] d = 3 -> "O(n^3)"
      [] OTHER -> "O(n^" \o ToString(d) \o ")"

\* the known classes from the lowest to the highest
KnownClasses == <<"O(1)", "O(log n)", "O(n)", "O(n log n)", "O(n^2)", "O(n^3)", "O(2^n)">>

\* the place of a class among the known ones; a class outside them ranks
\* above them all
ClassRank(class) ==
    IF class \in Range(KnownClasses)
    THEN CHOOSE i \in 1..Len(KnownClasses) : KnownClasses[i] = class
    ELSE Len(KnownClasses) + 1

\* the violation the time-complexity check words for an estimate and a threshold
TimeViolation(estimate, threshold) ==
    "Time complexity " \o estimate \o " exceeds max " \o threshold

\* C11: with max_time_complexity set, the time_complexity metric is the class
\* of the greatest for/while nesting depth over the functions (0 O(1), 1 O(n),
\* 2 O(n^2), 3 O(n^3), d >= 4 the string O(n^d)), and the result holds the
\* time-complexity violation exactly when that class ranks strictly above
\* the threshold's.
C11_TimeComplexityByLoopDepth ==
    \A gate \in GatesRun :
        "max_time_complexity" \in DOMAIN gate.cs =>
            \A estimate \in {ClassOfDepth(LoopDepth(source_code))} :
                /\ "time_complexity" \in DOMAIN gate.result.metrics
                /\ gate.result.metrics.time_complexity = estimate
                /\ (\E i \in 1..Len(gate.result.violations) :
                        gate.result.violations[i]
                            = TimeViolation(estimate, gate.cs.max_time_complexity))
                   <=> ClassRank(estimate) > ClassRank(gate.cs.max_time_complexity)

\* two nested loops against the threshold O(n): the gate failed with the
\* metric O(n^2)
C11_Witness ==
    /\ pc = "done"
    /\ "max_time_complexity" \in DOMAIN constraints.primary
    /\ constraints.primary.max_time_complexity = "O(n)"
    /\ LoopDepth(source_code) = 2
    /\ ~primary.passed
    /\ primary.metrics.time_complexity = "O(n^2)"

RECURSIVE WeightedAll(_, _)
RECURSIVE WeightedNode(_, _)
RECURSIVE Branches(_, _)

\* the nesting-weighted increments of the nodes, at nesting level N
WeightedAll(nodes, N) ==
    IF nodes = <<>> THEN 0
    ELSE WeightedNode(Head(nodes), N) + WeightedAll(Tail(nodes), N)

\* the branches of an if chain whose if (or elif) is the node: the branch
\* body one level deeper, a flat 1 for a following elif or else branch, the
\* chain itself staying at level N
Branches(chain, N) ==
    WeightedAll(chain.body, N + 1)
    + (IF chain.orelse = <<>> THEN 0
       ELSE IF Len(chain.orelse) = 1 /\ chain.orelse[1].cls = "If"
       THEN 1 + Branches(chain.orelse[1], N)
       ELSE 1 + WeightedAll(chain.orelse, N + 1))

\* an if, a loop and an except handler add 1 + N; the bodies of branches,
\* loops and handlers and the inside of a nested function or lambda are one
\* level deeper
WeightedNode(node, N) ==
    CASE node.cls = "If" -> (1 + N) + Branches(node, N)
      [] node.cls \in {"For", "While"} ->
            (1 + N) + WeightedAll(node.body, N + 1) + WeightedAll(node.orelse, N)
      [] node.cls = "ExceptHandler" -> (1 + N) + WeightedAll(node.body, N + 1)
      [] node.cls \in {"FunctionDef", "AsyncFunctionDef", "Lambda"} ->
            WeightedAll(iter_child_nodes(node), N + 1)
      [] OTHER -> WeightedAll(iter_child_nodes(node), N)

\* the nodes of the classes in the subtree of a function
NodesOf(function, classes) ==
    SelectSeq(ast_walk(function), LAMBDA node : node.cls \in classes)

\* for each source that parses and each of its functions: the
\* nesting-weighted score, the number of boolean-operator chains and of
\* break and continue statements, and the number of conditional expressions
CognitiveParts ==
    [key \in DOMAIN Corpus |->
        SeqMap(LAMBDA function :
                   [weighted |-> WeightedAll(iter_child_nodes(function), 0),
                    flat |-> Len(NodesOf(function, {"BoolOp", "Break", "Continue"})),
                    conditional |-> Len(NodesOf(function, {"IfExp"}))],
               tree_functions[key])]

\* no function of the source has a flat increment or a conditional expression
OnlyWeighted(src) ==
    \A i \in DOMAIN CognitiveParts[src] :
        CognitiveParts[src][i].flat = 0 /\ CognitiveParts[src][i].conditional = 0

NoConditional(src) ==
    \A i \in DOMAIN CognitiveParts[src] : CognitiveParts[src][i].conditional = 0

\* C18: the flat part of cognitive complexity: every boolean-operator chain
\* anywhere in a function (in the condition of an if or elif, in the condition
\* of a loop, inside an expression or assignment) adds 1 to the function's
\* score whatever the nesting, and so does every break and every continue: the
\* score of a function is its nesting-weighted part plus the number of these.
C18_CognitiveFlat ==
    \A gate \in GatesRun :
        ("max_cognitive_complexity" \in DOMAIN gate.cs /\ NoConditional(source_code)) =>
            /\ "cognitive_complexity" \in DOMAIN gate.result.metrics
            /\ gate.result.metrics.cognitive_complexity =
                   MaxFrom(0, SeqMap(LAMBDA parts : parts.weighted + parts.flat,
                                     CognitiveParts[source_code]))

\* the flat increments outside the conditions of if and elif are scored (a
\* boolean chain in a loop condition and in an assignment, a break and a
\* continue): every source but the one with a chain in the condition of an if
CognitiveFlatOutsideIf ==
    (pc \in {"gate", "done"} /\ source_code # "branchy") => C18_CognitiveFlat

RECURSIVE OwnReturns(_)
\* the return statements below the node that belong to the function the node
\* is in: those of blocks nested in it, not those of functions defined in it
OwnReturns(node) ==
    LET below(child) ==
            IF child.cls \in FunctionDefs THEN 0
            ELSE (IF child.cls = "Return" THEN 1 ELSE 0) + OwnReturns(child)
    IN  SumSeq(SeqMap(below, iter_child_nodes(node)))

\* for each source, the return statements of the own body of each function
ReturnsOfOwnBody ==
    [key \in DOMAIN Corpus |-> SeqMap(OwnReturns, tree_functions[key])]

\* C19: the max_return_statements metric is the greatest, over the function
\* definitions, of the number of return statements in the function's own
\* body, those in nested if, loop and try blocks counted and those of
\* function definitions nested inside it not counted.
C19_ReturnsExcludeNestedFunctions ==
    \A gate \in GatesRun :
        "max_return_statements" \in DOMAIN gate.cs =>
            /\ "max_return_statements" \in DOMAIN gate.result.metrics
            /\ gate.result.metrics.max_return_statements =
                   MaxFrom(0, ReturnsOfOwnBody[source_code])

\* the metric is the count of the own body wherever no function is defined
\* inside another
ReturnsWithoutNestedFunctions ==
    (pc \in {"gate", "done"} /\ source_code # "chain") => C19_ReturnsExcludeNestedFunctions

\* the newline characters of the text
NewlineCount(src) == Len(Corpus[src].pieces) - 1

\* the lines of the text: one for each newline character and one for what
\* follows the last of them, if anything does
LineCount(src) ==
    NewlineCount(src)
    + (IF Corpus[src].pieces[Len(Corpus[src].pieces)] > 0 THEN 1 ELSE 0)

\* the result of the gate holds the total-lines violation for the count
HasTotalLinesViolation(gate, count) ==
    \E i \in 1..Len(gate.result.violations) :
        gate.result.violations[i]
            = "Total lines " \o ToString(count) \o " > max "
              \o ToString(gate.cs.max_total_lines)

\* the total_lines metric is the count and the violation is there exactly
\* when the count is strictly greater than the threshold
TotalLinesIs(count(_)) ==
    \A gate \in GatesRun :
        "max_total_lines" \in DOMAIN gate.cs =>
            /\ "total_lines" \in DOMAIN gate.result.metrics
            /\ gate.result.metrics.total_lines = count(source_code)
            /\ HasTotalLinesViolation(gate, count(source_code))
               <=> count(source_code) > gate.cs.max_total_lines

\* C20 as stated: with max_total_lines set the total_lines metric is the raw
\* count of newline characters in the whole source text, whatever its
\* functions, and a violation is produced exactly when that count is strictly
\* greater than the threshold.
C20_RawNewlineCount == TotalLinesIs(NewlineCount)

\* C20: with max_total_lines set the total_lines metric is the number of
\* lines of the whole source text, a last line without a newline after it
\* counted, whatever its functions, and a violation is produced exactly when
\* that number is strictly greater than the threshold.
C20_TotalLines == TotalLinesIs(LineCount)

\* two lines with one newline character between them against the threshold
\* 1: the metric is 2 and the gate failed
C20_Witness ==
    /\ pc = "done"
    /\ source_code = "pair"
    /\ NewlineCount(source_code) = 1
    /\ "max_total_lines" \in DOMAIN constraints.primary
    /\ constraints.primary.max_total_lines = 1
    /\ primary.metrics.total_lines = 2
    /\ ~primary.passed

(***************************************************************************)
(* The claims about the profile loader.                                    *)
(***************************************************************************)

\* resolve_constraints was called since the profiles were loaded
Requested == "spec" \in DOMAIN request

\* the places of the function's specs that declare a profile of their own
OwnProfiles(spec, function_name) ==
    IF function_name = <<>> THEN {}
    ELSE { i \in DOMAIN spec.functions :
             /\ spec.functions[i].name = function_name[1]
             /\ spec.functions[i].constraint_profile # <<>> }

\* the profile the precedence rule names: the function's own where one of
\* its specs declares one (the first that does), else the task's
ProfileByPrecedence(spec, function_name) ==
    LET own == OwnProfiles(spec, function_name)
    IN  IF own = {} THEN spec.constraint_profile
        ELSE spec.functions[CHOOSE i \in own : \A j \in own : i <= j].constraint_profile[1]

\* the function override resolve_constraints looks up
OverrideOf(spec, function_name) ==
    get(get(profiles_data, "functions", <<>>),
        resolved_function(spec, function_name), <<>>)

\* the fields of a section of a profile or of an override that ConstraintSet has
Section(entry, gate) ==
    LET data == get(entry, gate, <<>>)
    IN  [field \in DOMAIN data \cap Fields |-> data[field]]

\* C12: resolve_constraints selects the profile by precedence: with a function
\* name whose spec declares a constraint_profile of its own that profile is
\* the one selected, and otherwise (function without a profile of its own,
\* function not listed, no function name) the task-level constraint_profile;
\* and the selected profile is the one used: without a function override
\* the resolved sets and guidance are those of the selected profile.
C12_ProfilePrecedence ==
    Requested =>
        LET spec == request.spec
            function_name == request.function_name
            expected == ProfileByPrecedence(spec, function_name)
        IN  /\ resolved.profile_name = expected
            /\ (Resolved /\ OverrideOf(spec, function_name) = <<>>
                 /\ expected \in DOMAIN get(profiles_data, "profiles", <<>>)) =>
                   LET profile == profiles_data.profiles[expected]
                   IN  /\ resolved.outcome.primary = Section(profile, "primary")
                       /\ resolved.outcome.secondary = Section(profile, "secondary")
                       /\ resolved.outcome.guidance = get(profile, "guidance", <<>>)

\* a function with a profile of its own, other than the task's, was resolved
C12_Witness ==
    /\ Requested
    /\ Resolved
    /\ OwnProfiles(request.spec, request.function_name) # {}
    /\ resolved.profile_name = "strict"
    /\ request.spec.constraint_profile = "default"
    /\ resolved.outcome.primary = Section(DefinedProfiles.strict, "primary")

\* resolve_constraints returned constraints for a profile of the file with a
\* function override merged in
Merged ==
    /\ Requested
    /\ Resolved
    /\ OverrideOf(request.spec, request.function_name) # <<>>
    /\ resolved.profile_name \in DOMAIN get(profiles_data, "profiles", <<>>)

\* the selected base profile and the function override of the request
BaseProfile == profiles_data.profiles[resolved.profile_name]
Override == OverrideOf(request.spec, request.function_name)

\* the merged set of a gate: the override's fields with the override's values,
\* every other field as the base profile has it
FlatMerge(gate) ==
    LET over == Section(Override, gate)
        base == Section(BaseProfile, gate)
        merged == resolved.outcome[gate]
    IN  /\ DOMAIN merged = DOMAIN over \cup DOMAIN base
        /\ \A field \in DOMAIN over : merged[field] = over[field]
        /\ \A field \in DOMAIN base \ DOMAIN over : merged[field] = base[field]
        /\ gate \notin DOMAIN Override => merged = base

\* C13: with a function-specific override the resolved constraints are a flat
\* field merge applied to primary and to secondary independently: a field
\* named in the override's section of a gate has the override's value, a
\* field not named there keeps the value of the selected base profile, and an
\* override of one gate does not change the other gate.
C13_FlatMergePerGate ==
    Merged => FlatMerge("primary") /\ FlatMerge("secondary")

\* the override of add replaced one primary field of the default profile,
\* kept the other and left secondary alone
C13_Witness ==
    /\ Merged
    /\ resolved.profile_name = "default"
    /\ Override = DefinedOverrides.add
    /\ resolved.outcome.primary =
           [max_cyclomatic_complexity |-> 2, max_lines_per_function |-> 3]
    /\ resolved.outcome.secondary = [require_docstrings |-> TRUE]

\* C14: when the function-level override supplies a guidance entry the
\* resolved guidance is exactly the override's list, the profile's strings
\* dropped and not appended to; when the override supplies none the resolved
\* guidance is exactly the base profile's list in its order.
C14_GuidanceReplaced ==
    Merged =>
        resolved.outcome.guidance =
            IF "guidance" \in DOMAIN Override THEN Override.guidance
            ELSE get(BaseProfile, "guidance", <<>>)

\* the guidance of the override of login took the place of the two strings
\* of the default profile
C14_Witness ==
    /\ Merged
    /\ resolved.profile_name = "default"
    /\ Len(BaseProfile.guidance) = 2
    /\ Override = DefinedOverrides.login
    /\ resolved.outcome.guidance = <<"Custom guidance for login.">>

\* C15: resolving constraints for a requested profile name that is not one
\* of the profiles defined in the loaded file fails with an error naming the
\* requested profile and returns no TaskConstraints, for every such name.
C15_UnknownProfileRaises ==
    (Requested /\ resolved.profile_name \notin DOMAIN get(profiles_data, "profiles", <<>>)) =>
        /\ ~Resolved
        /\ resolved.outcome =
               Raise("ValueError", "Unknown constraint profile: " \o resolved.profile_name)

\* the floor documented for each integer threshold
DocumentedFloor(field) == IF field = "max_parameters" THEN 0 ELSE 1

IntegerThresholds ==
    {"max_cyclomatic_complexity", "max_lines_per_function", "max_total_lines",
     "max_nested_depth", "max_return_statements", "max_cognitive_complexity",
     "max_local_variables", "max_parameters"}

\* some integer threshold of the data is below its floor
BelowFloor(data) ==
    \E field \in DOMAIN data \cap IntegerThresholds : data[field] < DocumentedFloor(field)

\* the call failed with pydantic's ValidationError
ValidationFailed(outcome) ==
    "raised" \in DOMAIN outcome /\ outcome.raised = "ValidationError"

\* the sections of the selected profile and of the function override
SuppliedSections ==
    { get(BaseProfile, gate, <<>>) : gate \in {"primary", "secondary"} }
    \cup { get(Override, gate, <<>>) : gate \in {"primary", "secondary"} }

\* C16: every ConstraintSet that reaches evaluation, constructed directly or
\* produced by profile resolution with a function override merged in, has each
\* integer threshold absent or at least its floor (1, and 0 for parameters);
\* a value below the floor, in a profile or in an override or in a direct
\* construction, fails with a validation error and yields no ConstraintSet.
C16_ThresholdFloors ==
    /\ pc \in {"primary", "gate", "done"} =>
          \A gate \in {"primary", "secondary"} : ~BelowFloor(constraints[gate])
    /\ (Requested /\ resolved.profile_name \in DOMAIN get(profiles_data, "profiles", <<>>)) =>
          IF \E data \in SuppliedSections : BelowFloor(data)
          THEN ValidationFailed(resolved.outcome)
          ELSE Resolved
    /\ \A data \in DirectData :
          IF BelowFloor(data) THEN ValidationFailed(ConstraintSet(data))
          ELSE ConstraintSet(data) = data

\* constraints merged from the strict profile, with max_parameters at its
\* floor, and the override of add were evaluated
C16_Witness ==
    /\ pc = "done"
    /\ Merged
    /\ constraints = resolved.outcome
    /\ Override = DefinedOverrides.add
    /\ constraints.primary = [max_cyclomatic_complexity |-> 2, max_parameters |-> 0]

\* an override with a value below the floor failed on a valid profile
C16_OverrideRejected ==
    /\ Requested
    /\ resolved.profile_name \in DOMAIN get(profiles_data, "profiles", <<>>)
    /\ ~BelowFloor(get(BaseProfile, "primary", <<>>))
    /\ BelowFloor(get(Override, "primary", <<>>))
    /\ ValidationFailed(resolved.outcome)

(***************************************************************************)
(* The claims about the detectors and the remaining metrics.               *)
(***************************************************************************)

\* the result of the gate holds a time-complexity violation
HasTimeViolation(gate) ==
    \E i \in 1..Len(gate.result.violations) :
        SubSeq(gate.result.violations[i], 1, 15) = "Time complexity"

\* C30: with max_time_complexity set to a string outside the known class
\* table the time-complexity check records the metric and produces no
\* violation, whatever the loop nesting depth of the source; and an estimate
\* of depth 4 or more ranks strictly above every class of the known table,
\* so it violates every threshold of the table.
C30_UnknownThresholdNeverViolated ==
    \A gate \in GatesRun :
        "max_time_complexity" \in DOMAIN gate.cs =>
            /\ "time_complexity" \in DOMAIN gate.result.metrics
            /\ gate.result.metrics.time_complexity = ClassOfDepth(LoopDepth(source_code))
            /\ gate.cs.max_time_complexity \notin Range(KnownClasses) => ~HasTimeViolation(gate)
            /\ (LoopDepth(source_code) >= 4 /\ gate.cs.max_time_complexity \in Range(KnownClasses))
                  => HasTimeViolation(gate)

\* two nested loops against a threshold outside the table: the metric is
\* recorded and the gate passed
C30_Witness ==
    /\ pc = "done"
    /\ DOMAIN constraints.primary = {"max_time_complexity"}
    /\ constraints.primary.max_time_complexity \notin Range(KnownClasses)
    /\ LoopDepth(source_code) = 2
    /\ primary.metrics.time_complexity = "O(n^2)"
    /\ primary.passed

\* four nested loops against the highest class of the table: the gate failed
TimeDepthFourAboveTable ==
    /\ pc = "done"
    /\ DOMAIN constraints.primary = {"max_time_complexity"}
    /\ constraints.primary.max_time_complexity = "O(2^n)"
    /\ LoopDepth(source_code) = 4
    /\ ~primary.passed

RECURSIVE ControlNesting(_)
\* the most control structures (if, for, while, try, with) on a path of the
\* tree that starts at the node
ControlNesting(node) ==
    LET below(child) == ControlNesting(child)
    IN  (IF node.cls \in {"If", "For", "While", "Try", "With"} THEN 1 ELSE 0)
        + MaxFrom(0, SeqMap(below, iter_child_nodes(node)))

\* for each source, the deepest chain of control structures inside each of
\* its functions
ControlDepths ==
    [key \in DOMAIN Corpus |-> SeqMap(ControlNesting, tree_functions[key])]

ListAttributes == {"body", "orelse", "finalbody"}

\* the terminal statements of a source that are not the last of their list,
\* each as the node holding the list, the attribute and the index
NonFinalTerminals(key) ==
    { t \in UNION { { [nid |-> tree_walk[key][n].nid, at |-> n, attr |-> attr, index |-> i] :
                        i \in 1..Len(stmt_list(tree_walk[key][n], attr)) } :
                    n \in 1..Len(tree_walk[key]), attr \in ListAttributes } :
        LET stmts == stmt_list(tree_walk[key][t.at], t.attr)
        IN  /\ stmts[t.index].cls \in {"Return", "Raise", "Break", "Continue"}
            /\ t.index < Len(stmts) }

\* the line of the statement that follows a terminal statement
LineAfter(key, t) == stmt_list(tree_walk[key][t.at], t.attr)[t.index + 1].lineno

UnreachableExpected ==
    [key \in DOMAIN Corpus |->
        IF Corpus[key].valid
        THEN [lines |-> { LineAfter(key, t) : t \in NonFinalTerminals(key) },
              count |-> [ln \in { LineAfter(key, t) : t \in NonFinalTerminals(key) } |->
                            Cardinality({ t \in NonFinalTerminals(key) : LineAfter(key, t) = ln })],
              total |-> Cardinality(NonFinalTerminals(key))]
        ELSE [lines |-> {}, count |-> <<>>, total |-> 0]]

\* C22: with no_unreachable_code on, every return, raise, break or continue
\* that is not the last statement of its list (a body, orelse or finalbody of
\* any node) gives exactly one finding, at the line of the statement after it,
\* and a terminal statement in last position gives none: the findings are as
\* many as the non-final terminal statements, line by line, and each finding
\* is one violation.
C22_UnreachableAfterTerminal ==
    \A gate \in GatesRun :
        ("no_unreachable_code" \in DOMAIN gate.cs /\ gate.cs.no_unreachable_code = TRUE) =>
            LET found == gate.result.metrics.unreachable_code
                expected == UnreachableExpected[source_code]
            IN  /\ Len(found) = expected.total
                /\ Range(found) = expected.lines
                /\ \A ln \in expected.lines :
                        Count(LAMBDA x : x = ln, found) = expected.count[ln]
                /\ \A ln \in expected.lines :
                        Count(LAMBDA x : x = "Unreachable code at line " \o ToString(ln),
                              gate.result.violations) = expected.count[ln]

\* a function with several unreachable runs, two terminal statements in a
\* row and terminal statements in last position: five findings
C22_Witness ==
    /\ pc = "done"
    /\ DOMAIN constraints.primary = {"no_unreachable_code"}
    /\ constraints.primary.no_unreachable_code = TRUE
    /\ source_code = "flow"
    /\ Len(primary.metrics.unreachable_code) = 5
    /\ Range(primary.metrics.unreachable_code) = {5, 10, 18, 19, 22}
    /\ Len(primary.violations) = 5

\* the dict literals of a source
DictLiterals(key) == SelectSeq(tree_walk[key], LAMBDA node : node.cls = "Dict")

\* the positions of the constant keys of a literal
ConstantKeys(dict) == { i \in 1..Len(dict.keys) : dict.keys[i].cls = "Constant" }

\* the positions of the constant keys equal to an earlier constant key of
\* the same literal
RepeatedKeys(dict) ==
    { i \in ConstantKeys(dict) :
        \E j \in ConstantKeys(dict) :
            j < i /\ constant_value(dict.keys[j]) = constant_value(dict.keys[i]) }

\* the number of constant keys of a literal minus the number of their
\* distinct values
SurplusKeys(dict) ==
    Cardinality(ConstantKeys(dict))
    - Cardinality({ constant_value(dict.keys[i]) : i \in ConstantKeys(dict) })

DuplicatesExpected ==
    [key \in DOMAIN Corpus |->
        IF ~Corpus[key].valid THEN [at |-> {}, total |-> 0]
        ELSE LET dicts == DictLiterals(key)
             IN  [at |-> UNION { { [dict |-> d, index |-> i,
                                   lineno |-> dicts[d].keys[i].lineno] :
                                    i \in RepeatedKeys(dicts[d]) } : d \in 1..Len(dicts) },
                  total |-> SumSeq(SeqMap(SurplusKeys, dicts))]]

\* C25: with no_duplicate_dict_keys on, every constant key of a dict literal
\* that equals an earlier constant key of the same literal is reported once,
\* at its own line, and nothing else is: the findings of a literal are its
\* constant keys less their distinct values, a first occurrence, a key that
\* is no constant and a ** unpacking are never reported, and an equal key of
\* another literal does not count.
C25_DuplicateDictKeys ==
    \A gate \in GatesRun :
        ("no_duplicate_dict_keys" \in DOMAIN gate.cs /\ gate.cs.no_duplicate_dict_keys = TRUE) =>
            LET found == gate.result.metrics.duplicate_dict_keys
                expected == DuplicatesExpected[source_code]
            IN  /\ Len(found) = expected.total
                /\ Len(found) = Cardinality(expected.at)
                /\ \A ln \in Range(found) \cup { k.lineno : k \in expected.at } :
                        /\ Count(LAMBDA x : x = ln, found)
                              = Cardinality({ k \in expected.at : k.lineno = ln })
                        /\ Count(LAMBDA x : x = "Duplicate dictionary key at line "
                                                \o ToString(ln), gate.result.violations)
                              = Cardinality({ k \in expected.at : k.lineno = ln })

\* a literal with the key "a" three times, a repeated name as key, a **
\* unpacking, the keys 1 and True, and a literal of its own with the key "a"
\* as one of its values: three findings
C25_Witness ==
    /\ pc = "done"
    /\ DOMAIN constraints.primary = {"no_duplicate_dict_keys"}
    /\ constraints.primary.no_duplicate_dict_keys = TRUE
    /\ source_code = "registry"
    /\ primary.metrics.duplicate_dict_keys = <<9, 13, 15>>
    /\ Len(primary.violations) = 3

\* the default values of a function, positional and keyword-only
DefaultValues(node) ==
    Range(node.args[1].defaults) \cup Range(node.args[1].kw_defaults)

\* one of the defaults is a list, dict or set literal
HasLiteralDefault(node) ==
    \E default \in DefaultValues(node) : default.cls \in {"List", "Dict", "Set"}

SafeWhitelist ==
    {"frozenset", "tuple", "bytes", "int", "float", "str", "bool", "complex",
     "Field", "field", "dataclass", "property"}

\* the name a call calls: the name itself, or the attribute of a dotted name
CalledName(call) ==
    CASE call.func[1].cls = "Name" -> call.func[1].id
      [] call.func[1].cls = "Attribute" -> call.func[1].attr
      [] OTHER -> ""

\* one of the defaults is a call of a name outside the whitelist
HasUnsafeCallDefault(node) ==
    \E default \in DefaultValues(node) :
        default.cls = "Call" /\ CalledName(default) \notin SafeWhitelist

DefaultsExpected ==
    [key \in DOMAIN Corpus |->
        [literal |-> SeqMap(LAMBDA node : node.name,
                            SelectSeq(tree_functions[key], HasLiteralDefault)),
         call |-> SeqMap(LAMBDA node : node.name,
                         SelectSeq(tree_functions[key], HasUnsafeCallDefault))]]

\* the violations of a result that begin with a prefix, the prefix taken off
WithPrefix(violations, prefix) ==
    SeqMap(LAMBDA x : SubSeq(x, Len(prefix) + 1, Len(x)),
           SelectSeq(violations,
                     LAMBDA x : Len(x) >= Len(prefix) /\ SubSeq(x, 1, Len(prefix)) = prefix))

IsOn(cs, field) == field \in DOMAIN cs /\ cs[field] = TRUE

\* C24: no_mutable_defaults names a function exactly when one of its
\* defaults is a list, dict or set literal, and no_mutable_call_in_defaults
\* names it exactly when one of its defaults is a call of a name outside the
\* safe whitelist; each names a function once however many of its defaults
\* qualify, and the findings of either are the same whether the other is on,
\* off or not set.
C24_MutableDefaultChecks ==
    \A gate \in GatesRun :
        LET expected == DefaultsExpected[source_code]
            literal == WithPrefix(gate.result.violations, "Mutable default argument in ")
            call == WithPrefix(gate.result.violations, "Function call in default argument in ")
        IN  /\ IF IsOn(gate.cs, "no_mutable_defaults")
               THEN /\ gate.result.metrics.mutable_defaults = expected.literal
                    /\ literal = expected.literal
               ELSE /\ "mutable_defaults" \notin DOMAIN gate.result.metrics
                    /\ literal = <<>>
            /\ IF IsOn(gate.cs, "no_mutable_call_in_defaults")
               THEN /\ gate.result.metrics.mutable_call_defaults = expected.call
                    /\ call = expected.call
               ELSE /\ "mutable_call_defaults" \notin DOMAIN gate.result.metrics
                    /\ call = <<>>

\* both checks on: the method with a keyword-only list default and a set()
\* default and the method with two literal defaults and a list() default are
\* named once by each check, the function with tuple() and
\* dataclasses.field() defaults by neither
C24_Witness ==
    /\ pc = "done"
    /\ source_code = "registry"
    /\ IsOn(constraints.primary, "no_mutable_defaults")
    /\ IsOn(constraints.primary, "no_mutable_call_in_defaults")
    /\ primary.metrics.mutable_defaults = <<"add", "make">>
    /\ primary.metrics.mutable_call_defaults = <<"add", "make">>

\* the call check alone on the same source: the same findings, and nothing
\* of the literal check
CallCheckAlone ==
    /\ pc = "done"
    /\ source_code = "registry"
    /\ DOMAIN constraints.primary = {"no_mutable_call_in_defaults"}
    /\ constraints.primary.no_mutable_call_in_defaults = TRUE
    /\ DOMAIN primary.metrics = {"mutable_call_defaults"}
    /\ primary.metrics.mutable_call_defaults = <<"add", "make">>
    /\ primary.violations = <<"Function call in default argument in add",
                              "Function call in default argument in make">>

\* the parameters of a lambda or function that have a default value: the
\* last positional ones, one for each entry of defaults, and the
\* keyword-only ones whose entry of kw_defaults is not None
ParametersWithDefault(closure) ==
    LET args == closure.args[1]
        positional == args.posonlyargs \o args.args
        first == Len(positional) - Len(args.defaults) + 1
    IN  { positional[i].arg : i \in first..Len(positional) }
        \cup { args.kwonlyargs[i].arg :
                i \in { j \in 1..Len(args.kwonlyargs) : args.kw_defaults[j].cls # "NoneType" } }

\* the names a lambda or function refers to
NamesReferred(closure) ==
    { node.id : node \in { n \in Range(ast_walk(closure)) : n.cls = "Name" } }

\* the pairs of a for loop and a lambda or function defined inside it that
\* refers to a name the loop target binds which is no defaulted parameter
\* of its own
LateBoundClosures(key) ==
    { pair \in UNION { { [loop |-> loop.nid, closure |-> closure.nid, lineno |-> closure.lineno,
                          late |-> (NamesReferred(closure)
                                    \cap _extract_target_names(loop.target[1]))
                                   \ ParametersWithDefault(closure)] :
                            closure \in { n \in Range(ast_walk(loop)) :
                                            n.cls \in {"Lambda", "FunctionDef", "AsyncFunctionDef"} } } :
                       loop \in { n \in Range(tree_walk[key]) : n.cls = "For" } } :
        pair.late # {} }

ClosuresExpected ==
    [key \in DOMAIN Corpus |->
        IF Corpus[key].valid THEN LateBoundClosures(key) ELSE {}]

\* the findings of a gate with no_loop_variable_closure on are, line by
\* line, the expected pairs
ClosuresAsExpected(gate) ==
    LET found == gate.result.metrics.loop_variable_closures
        expected == ClosuresExpected[source_code]
    IN  /\ Len(found) = Cardinality(expected)
        /\ \A ln \in Range(found) \cup { pair.lineno : pair \in expected } :
                Count(LAMBDA x : x = ln, found)
                    = Cardinality({ pair \in expected : pair.lineno = ln })

\* C23: with no_loop_variable_closure on, a lambda or nested function
\* inside a for loop is reported exactly when it refers to a name that the
\* loop target binds (tuple and list targets unpacked) and that is not a
\* parameter of the closure with a default value: lambda: i is one finding,
\* lambda i=i: i is none.
C23_LoopClosures ==
    \A gate \in GatesRun :
        IsOn(gate.cs, "no_loop_variable_closure") => ClosuresAsExpected(gate)

\* the closures in which a keyword-only parameter has a default
KeywordOnlyDefault(key) ==
    \E n \in Range(tree_walk[key]) :
        /\ n.cls \in {"Lambda", "FunctionDef", "AsyncFunctionDef"}
        /\ \E j \in 1..Len(n.args[1].kw_defaults) : n.args[1].kw_defaults[j].cls # "NoneType"

\* on the sources in which no keyword-only parameter has a default the
\* findings are the expected ones
LoopClosuresPositionalDefaults ==
    \A gate \in GatesRun :
        (IsOn(gate.cs, "no_loop_variable_closure") /\ ~KeywordOnlyDefault(source_code))
            => ClosuresAsExpected(gate)

\* the closure lambda *, j=j: j in a loop over i, (j, k) is reported
KeywordOnlyDefaultReported ==
    /\ pc = "done"
    /\ source_code = "registry"
    /\ IsOn(constraints.primary, "no_loop_variable_closure")
    /\ primary.metrics.loop_variable_closures = <<25, 27>>
    /\ { pair.lineno : pair \in ClosuresExpected[source_code] } = {25}

\* lambda: i in a loop over i is one finding
LoopClosureReported ==
    /\ pc = "done"
    /\ source_code = "unsafe"
    /\ IsOn(constraints.primary, "no_loop_variable_closure")
    /\ Len(primary.metrics.loop_variable_closures) = 1
    /\ Cardinality(ClosuresExpected[source_code]) = 1

\* the first statement of the body is an expression that is a string literal
HasDocstring(node) ==
    /\ node.body # <<>>
    /\ node.body[1].cls = "Expr"
    /\ node.body[1].value[1].cls = "Constant"
    /\ node.body[1].value[1].vtype = "str"

DocstringOf(node) == node.body[1].value[1].value

\* the parameters of a function, of every kind, other than self and cls
ParametersOf(node) ==
    LET args == node.args[1]
    IN  { a.arg : a \in Range(args.posonlyargs \o args.args \o args.vararg
                              \o args.kwonlyargs \o args.kwarg) } \ {"self", "cls"}

\* a return with a value occurs in the function
ReturnsValue(node) ==
    \E n \in Range(ast_walk(node)) : n.cls = "Return" /\ n.value # <<>>

\* the definition yields a docstring violation
DocstringViolation(node) ==
    IF node.cls = "ClassDef" THEN ~HasDocstring(node)
    ELSE \/ ~HasDocstring(node)
         \/ ParametersOf(node) # {} /\ ~Contains(DocstringOf(node), <<"A", "r", "g", "s", ":">>)
         \/ /\ ReturnsValue(node)
            /\ ~Contains(DocstringOf(node), <<"R", "e", "t", "u", "r", "n", "s", ":">>)

Definitions(key) ==
    { n \in Range(tree_walk[key]) : n.cls \in {"FunctionDef", "AsyncFunctionDef", "ClassDef"} }

\* the names of the definitions of a source, each with the number of its
\* definitions that yield a violation
DocstringsExpected ==
    [key \in DOMAIN Corpus |->
        IF ~Corpus[key].valid THEN <<>>
        ELSE [name \in { n.name : n \in Definitions(key) } |->
                Cardinality({ n \in Definitions(key) :
                                n.name = name /\ DocstringViolation(n) })]]

\* the messages that name a definition
IssuesOf(name) ==
    {"Missing docstring: " \o name, name \o ": missing Args section in docstring",
     name \o ": missing Returns section in docstring"}

\* the violations of a gate with require_docstrings on are one for each
\* definition expected to yield one, and no other
DocstringsAsExpected(gate) ==
    LET expected == DocstringsExpected[source_code]
        issues == gate.result.metrics.missing_docstrings
    IN  /\ \A name \in DOMAIN expected :
                /\ Count(LAMBDA x : x \in IssuesOf(name), issues) = expected[name]
                /\ Count(LAMBDA x : x \in IssuesOf(name), gate.result.violations)
                      = expected[name]
        /\ \A i \in 1..Len(issues) : \E name \in DOMAIN expected : issues[i] \in IssuesOf(name)

\* C21: with require_docstrings on, a function yields a docstring violation
\* exactly when its first statement is no string literal, or it has a
\* parameter other than self and cls and the docstring lacks "Args:", or it
\* returns a value and the docstring lacks "Returns:"; a class exactly when
\* its first statement is no string literal.
C21_DocstringViolations ==
    \A gate \in GatesRun :
        IsOn(gate.cs, "require_docstrings") => DocstringsAsExpected(gate)

\* a function has a parameter that is not one of args.args
OtherParameterKinds(key) ==
    \E n \in Definitions(key) :
        /\ n.cls # "ClassDef"
        /\ LET args == n.args[1]
           IN  args.posonlyargs \o args.vararg \o args.kwonlyargs \o args.kwarg # <<>>

\* on the sources whose functions have plain positional parameters only the
\* violations are the expected ones
DocstringsPlainParameters ==
    \A gate \in GatesRun :
        (IsOn(gate.cs, "require_docstrings") /\ ~OtherParameterKinds(source_code))
            => DocstringsAsExpected(gate)

\* the method add(self, *, tags=[], seen=set()) with the docstring "Add."
\* yields no violation; the function one(value, ...) with the docstring
\* "One." yields the Args violation
KeywordOnlyParametersPass ==
    /\ pc = "done"
    /\ source_code = "registry"
    /\ DOMAIN constraints.primary = {"require_docstrings"}
    /\ constraints.primary.require_docstrings = TRUE
    /\ DocstringsExpected[source_code]["add"] = 1
    /\ \A i \in 1..Len(primary.violations) : primary.violations[i] \notin IssuesOf("add")
    /\ In("one: missing Args section in docstring", primary.violations)

\* a method without parameters that returns a value and whose docstring
\* lacks "Returns:" yields the Returns violation, and only that
ReturnsSectionMissing ==
    /\ pc = "done"
    /\ source_code = "methods"
    /\ DOMAIN constraints.primary = {"require_docstrings"}
    /\ constraints.primary.require_docstrings = TRUE
    /\ primary.violations = <<"peek: missing Returns section in docstring">>

(***************************************************************************)
(* run_implementation: the retry loop around the implementation agent.     *)
(***************************************************************************)

\* FunctionProgress(name=..., status=..., test_source=...)
FunctionProgress(name, status, source) ==
    [name |-> name, status |-> status, test_source |-> source]

\* a str that is the text of the corpus with that key
Text(key) == [text |-> key]

\* bool(source) for a str or None: neither None nor ""
truthy(source) == source # None /\ Corpus[source.text].pieces # <<0>>

\* sub in text, for two strings
HasSubstring(text, sub) ==
    \E i \in 1..(Len(text) - Len(sub) + 1) : SubSeq(text, i, i + Len(sub) - 1) = sub

RECURSIVE Join(_, _)
\* sep.join(parts)
Join(sep, parts) ==
    IF parts = <<>> THEN ""
    ELSE IF Len(parts) = 1 THEN parts[1]
    ELSE parts[1] \o sep \o Join(sep, Tail(parts))

\* the paths of the files written, one for each entry with a test source
_write_generated_tests(function_progress) ==
    SeqMap(LAMBDA progress : "tests/test_" \o progress.name \o ".py",
           SelectSeq(function_progress, LAMBDA progress : truthy(progress.test_source)))

\* build_implementation_prompt leaving the feedback of the attempt before out
build_implementation_prompt_plain(test_paths, feedback) ==
    IF test_paths = <<>> THEN "No generated tests were provided. Make no changes."
    ELSE Join("\n\n",
            <<"Implement production code so all generated tests pass. Use these tests: "
                 \o Join(", ", test_paths) \o ".",
              "Write your implementation to the target files specified in the plan. "
                 \o "Run pytest to verify your implementation passes all tests before finishing.">>)

\* build_implementation_prompt(test_paths, None, feedback)
build_implementation_prompt(test_paths, feedback) ==
    IF test_paths = <<>> THEN "No generated tests were provided. Make no changes."
    ELSE Join("\n\n",
            <<"Implement production code so all generated tests pass. Use these tests: "
                 \o Join(", ", test_paths) \o ".",
              "Write your implementation to the target files specified in the plan. "
                 \o "Run pytest to verify your implementation passes all tests before finishing.">>
            \o (IF feedback # ""
                THEN <<"\nPREVIOUS ATTEMPT FAILED. Fix the errors below:\n" \o feedback>>
                ELSE <<>>))

\* the outputs of the agent are short and have no blanks at their ends, so
\* that _bounded_excerpt returns them as they are
_format_agent_failure_feedback(returncode, stdout, stderr) ==
    Join("\n\n",
        <<"IMPLEMENTATION AGENT FAILED (exit code " \o ToString(returncode) \o ").">>
        \o (IF stderr # "" THEN <<"stderr:\n" \o stderr>> ELSE <<>>)
        \o (IF stdout # "" THEN <<"stdout:\n" \o stdout>> ELSE <<>>)
        \o <<"Fix the failure and retry implementation.">>)

\* the session states run_implementation is called with
ImplementationStates ==
    {<<FunctionProgress("add", "done", Text("tiny"))>>,
     <<FunctionProgress("add", "done", Text("empty"))>>,
     <<FunctionProgress("add", "pending", None), FunctionProgress("sub", "done", Text("oneline"))>>}

\* the values of config.max_iterations
MaxIterations == {0, 1, 2, 3}

\* the outputs of a failing agent and of a failing pytest run
AgentOutputs == {[returncode |-> 1, stdout |-> "", stderr |-> "agent failed"],
                 [returncode |-> 2, stdout |-> "impl stdout failure", stderr |-> ""]}
PytestOutputs == {"", "1 failed"}

\* run_implementation(state, config) up to the first attempt
CallImplementation(function_progress, max_iterations) ==
    /\ impl_pc \in {"idle", "returned"}
    /\ generated_paths' = _write_generated_tests(function_progress)
    /\ max_attempts' = max(max_iterations, 1)
    /\ error_feedback' = ""
    /\ attempt' = 1
    /\ agent_runs' = <<>>
    /\ success' = None
    /\ impl_pc' = "agent"
    /\ UNCHANGED <<check_vars, loader_vars, session_vars>>

\* the run of the agent in this attempt, with the prompt it is given
AgentRun(outcome, pytest) ==
    [prompt |-> build_implementation_prompt(generated_paths, error_feedback),
     outcome |-> outcome, pytest |-> pytest]

\* continue, or the end of the loop: the next attempt, or return False
NextAttempt ==
    IF attempt < max_attempts
    THEN attempt' = attempt + 1 /\ impl_pc' = "agent" /\ success' = None
    ELSE attempt' = attempt /\ impl_pc' = "returned" /\ success' = FALSE

\* subprocess.run raises FileNotFoundError
AgentNotFound ==
    /\ impl_pc = "agent"
    /\ agent_runs' = Append(agent_runs, AgentRun("not found", "not run"))
    /\ error_feedback' =
          _format_agent_failure_feedback(-1, "", "Agent binary not found: agent")
    /\ NextAttempt
    /\ UNCHANGED <<generated_paths, max_attempts>>
    /\ UNCHANGED <<check_vars, loader_vars, session_vars>>

\* impl_result.returncode != 0
AgentFails(result) ==
    /\ impl_pc = "agent"
    /\ agent_runs' = Append(agent_runs, AgentRun("failed", "not run"))
    /\ error_feedback' =
          _format_agent_failure_feedback(result.returncode, result.stdout, result.stderr)
    /\ NextAttempt
    /\ UNCHANGED <<generated_paths, max_attempts>>
    /\ UNCHANGED <<check_vars, loader_vars, session_vars>>

\* impl_result.returncode == 0: _verify_tests is called
AgentSucceeds ==
    /\ impl_pc = "agent"
    /\ agent_runs' = Append(agent_runs, AgentRun("succeeded", "running"))
    /\ impl_pc' = "verify"
    /\ UNCHANGED <<generated_paths, max_attempts, error_feedback, attempt, success>>
    /\ UNCHANGED <<check_vars, loader_vars, session_vars>>

\* passed, error_feedback = _verify_tests(...) with passed: return True
VerifyPasses ==
    /\ impl_pc = "verify"
    /\ agent_runs' = [agent_runs EXCEPT ![Len(agent_runs)].pytest = "passed"]
    /\ error_feedback' = ""
    /\ success' = TRUE
    /\ impl_pc' = "returned"
    /\ UNCHANGED <<generated_paths, max_attempts, attempt>>
    /\ UNCHANGED <<check_vars, loader_vars, session_vars>>

\* passed, error_feedback = _verify_tests(...) with passed False
VerifyFails(output) ==
    /\ impl_pc = "verify"
    /\ agent_runs' = [agent_runs EXCEPT ![Len(agent_runs)].pytest = "failed"]
    /\ error_feedback' = output
    /\ NextAttempt
    /\ UNCHANGED <<generated_paths, max_attempts>>
    /\ UNCHANGED <<check_vars, loader_vars, session_vars>>

NextImplementation ==
    \/ \E function_progress \in ImplementationStates, max_iterations \in MaxIterations :
          CallImplementation(function_progress, max_iterations)
    \/ AgentNotFound
    \/ \E result \in AgentOutputs : AgentFails(result)
    \/ AgentSucceeds
    \/ VerifyPasses
    \/ \E output \in PytestOutputs : VerifyFails(output)

SpecImplementation == Init /\ [][NextImplementation]_vars

(***************************************************************************)
(* The claims about run_implementation.                                    *)
(***************************************************************************)

\* the agent failed in a run: it exited non-zero or its binary was missing
AgentFailed(run) == run.outcome \in {"not found", "failed"}

\* the attempt succeeded: the agent succeeded and the verification passed
Succeeded(run) == run.outcome = "succeeded" /\ run.pytest = "passed"

\* run_implementation returned True, returned False
ReturnedTrue == impl_pc = "returned" /\ success = TRUE
ReturnedFalse == impl_pc = "returned" /\ success = FALSE

\* the agent is invoked at most max_attempts times
AtMostMaxAttempts == Len(agent_runs) <= max_attempts

\* no verification in an attempt whose agent failed
NoVerificationAfterFailure ==
    \A i \in 1..Len(agent_runs) : AgentFailed(agent_runs[i]) => agent_runs[i].pytest = "not run"

\* the prompt of the attempt after one whose agent failed carries the feedback
FeedbackAfterFailure ==
    \A i \in 1..(Len(agent_runs) - 1) :
        AgentFailed(agent_runs[i])
            => HasSubstring(agent_runs[i + 1].prompt, "IMPLEMENTATION AGENT FAILED")

\* True is returned at the first attempt that succeeded, and the loop goes
\* on from no attempt that succeeded
TrueAtFirstSuccess ==
    /\ \A i \in 1..Len(agent_runs) :
          Succeeded(agent_runs[i]) => i = Len(agent_runs) /\ ReturnedTrue
    /\ ReturnedTrue => agent_runs # <<>> /\ Succeeded(agent_runs[Len(agent_runs)])

\* False is returned when every attempt is used and none succeeded
FalseWhenExhausted ==
    /\ ReturnedFalse =>
          /\ Len(agent_runs) = max_attempts
          /\ \A i \in 1..Len(agent_runs) : ~Succeeded(agent_runs[i])
    /\ (impl_pc \in {"agent", "verify"} /\ Len(agent_runs) = max_attempts) =>
          impl_pc = "verify" /\ agent_runs[Len(agent_runs)].outcome = "succeeded"

\* C27 as stated: run_implementation invokes the agent at most
\* max(max_iterations, 1) times; in an attempt where the agent exits non-zero or its binary is
\* missing no verification is run and the prompt of the next attempt carries
\* the 'IMPLEMENTATION AGENT FAILED' feedback; True is returned at the first
\* attempt whose agent succeeded and whose verification passed, and False
\* once every attempt is used without that.
C27_FeedbackAlways ==
    /\ AtMostMaxAttempts
    /\ NoVerificationAfterFailure
    /\ FeedbackAfterFailure
    /\ TrueAtFirstSuccess
    /\ FalseWhenExhausted

\* C27: run_implementation invokes the agent at most max(max_iterations, 1)
\* times; in an attempt where the agent exits non-zero or its binary is
\* missing no verification is run and, when at least one test file was
\* written, the prompt of the next attempt carries the 'IMPLEMENTATION AGENT
\* FAILED' feedback; True is returned at the first attempt whose agent
\* succeeded and whose verification passed, and False once every attempt is
\* used without that.
C27_ImplementationRetries ==
    /\ AtMostMaxAttempts
    /\ NoVerificationAfterFailure
    /\ generated_paths # <<>> => FeedbackAfterFailure
    /\ TrueAtFirstSuccess
    /\ FalseWhenExhausted

\* no test file was written, the agent failed and was run again with a prompt
\* that says nothing of the failure
RetryWithoutFeedback ==
    /\ generated_paths = <<>>
    /\ Len(agent_runs) >= 2
    /\ AgentFailed(agent_runs[1])
    /\ agent_runs[2].prompt = "No generated tests were provided. Make no changes."

\* a test file was written, the agent failed in the first attempt and
\* succeeded in the second, whose prompt carries the feedback, and True was
\* returned
C27_Witness ==
    /\ generated_paths # <<>>
    /\ Len(agent_runs) = 2
    /\ agent_runs[1].outcome = "failed"
    /\ HasSubstring(agent_runs[2].prompt, "IMPLEMENTATION AGENT FAILED (exit code 2).")
    /\ ReturnedTrue

\* every attempt of three used, the agent's binary missing each time
AttemptsExhausted ==
    /\ max_attempts = 3
    /\ Len(agent_runs) = 3
    /\ \A i \in 1..3 : agent_runs[i].outcome = "not found"
    /\ ReturnedFalse

(***************************************************************************)
(* run_session, process_function and _generate_and_approve.                *)
(***************************************************************************)

\* not test_source.strip(): the texts of the corpus have no line of blanks
\* only, so a text strips to nothing when all its lines are empty
strips_empty(src) == \A i \in 1..Len(src.pieces) : src.pieces[i] = 0

\* the flag validate_test_syntax returns
validate_test_syntax(src) ==
    IF SyntaxError(src) THEN FALSE
    ELSE IF strips_empty(src) THEN FALSE
    ELSE TRUE

\* the tuple check_constraints returns for a text that parses
check_constraints(src, tc) ==
    LET gates(p) == <<p, IF ~p.passed THEN ConstraintResult(TRUE, <<>>, <<>>)
                         ELSE _evaluate(src, tc.secondary)>>
    IN  Once(_evaluate(src, tc.primary), gates)

\* the flag validate_test_constraints returns
validate_test_constraints(src, tc) ==
    LET result == check_constraints(src, tc)
    IN  result[1].violations \o result[2].violations = <<>>

\* SessionState(function_progress=...)
SessionState(function_progress) == [function_progress |-> function_progress]

\* create_session(spec)
create_session(spec) ==
    SessionState(
        IF spec.functions # <<>>
        THEN SeqMap(LAMBDA func : FunctionProgress(func.name, "pending", None), spec.functions)
        ELSE <<FunctionProgress(spec.name, "pending", None)>>)

\* the specs a session is created from
SessionSpecs ==
    {ParsedSpec("task", "default",
                <<FunctionSpec("login", <<>>), FunctionSpec("logout", <<>>)>>),
     ParsedSpec("add", "default", <<>>)}

\* what resolve_constraints gives for every function of the session
SessionConstraints ==
    TaskConstraints([max_parameters |-> 1], [no_print_statements |-> TRUE])

\* Config(max_iterations=...) and the flags of the run
SessionConfigs ==
    { [max_iterations |-> n, auto_tests |-> a, auto_critique |-> c] :
        n \in {0, 2}, a \in BOOLEAN, c \in BOOLEAN }

\* what the generation agent answers and what an editor leaves
TestSources == { Text(key) : key \in {"empty", "invalid_short", "tiny", "simple"} }

\* max_attempts = max(config.max_iterations, 1)
SessionMaxAttempts == max(config.max_iterations, 1)

\* max_critique_cycles = 2 if auto_critique else max_attempts
max_critique_cycles == IF config.auto_critique THEN 2 ELSE SessionMaxAttempts

\* both validations of _generate_and_approve pass on the source
passes_validation(source) ==
    LET src == Texts[source.text]
    IN  validate_test_syntax(src) /\ validate_test_constraints(src, SessionConstraints)

\* the names of the entries not done
pending_names(function_progress) ==
    SeqMap(LAMBDA progress : progress.name,
           SelectSeq(function_progress, LAMBDA progress : progress.status # "done"))

\* run_session up to its loop: load_session, or create_session and save_session
StartSession(spec, cfg) ==
    /\ session_pc \in {"stopped", "returned", "raised"}
    /\ state' = IF session_file = None THEN create_session(spec) ELSE session_file
    /\ session_file' = state'
    /\ process_calls' = [pending |-> pending_names(state'.function_progress), called |-> <<>>]
    /\ index' = 1
    /\ config' = cfg
    /\ cycle' = 0
    /\ attempt' = 0
    /\ test_source' = None
    /\ approved_source' = None
    /\ session_pc' = "loop"
    /\ UNCHANGED <<check_vars, loader_vars, impl_vars>>

\* if progress.status == FunctionStatus.done: continue
SkipDone ==
    /\ session_pc = "loop"
    /\ index <= Len(state.function_progress)
    /\ state.function_progress[index].status = "done"
    /\ index' = index + 1
    /\ UNCHANGED <<session_pc, state, session_file, config, cycle, attempt, test_source,
                   approved_source, process_calls>>
    /\ UNCHANGED <<check_vars, loader_vars, impl_vars>>

\* process_function(progress.name, ...) is called and begins its first cycle
BeginFunction ==
    /\ session_pc = "loop"
    /\ index <= Len(state.function_progress)
    /\ state.function_progress[index].status # "done"
    /\ process_calls' = [process_calls EXCEPT !.called = Append(@, state.function_progress[index].name)]
    /\ cycle' = 1
    /\ attempt' = 0
    /\ test_source' = None
    /\ approved_source' = None
    /\ session_pc' = "generate"
    /\ UNCHANGED <<state, session_file, index, config>>
    /\ UNCHANGED <<check_vars, loader_vars, impl_vars>>

\* the loop of run_session is over: return state
FinishSession ==
    /\ session_pc = "loop"
    /\ index > Len(state.function_progress)
    /\ session_pc' = "returned"
    /\ UNCHANGED <<state, session_file, index, config, cycle, attempt, test_source,
                   approved_source, process_calls>>
    /\ UNCHANGED <<check_vars, loader_vars, impl_vars>>

\* one iteration of _generate_and_approve up to prompt_user_review: the
\* agent's answer is dropped when it is empty or fails a validation, is
\* returned at once with auto, and is put to the user otherwise
Generate(source) ==
    /\ session_pc = "generate"
    /\ attempt < SessionMaxAttempts
    /\ attempt' = attempt + 1
    /\ test_source' = source
    /\ IF ~truthy(source) \/ ~passes_validation(source)
       THEN session_pc' = "generate" /\ approved_source' = approved_source
       ELSE /\ approved_source' = source
            /\ session_pc' = IF config.auto_tests THEN "critique" ELSE "review"
    /\ UNCHANGED <<state, session_file, index, config, cycle, process_calls>>
    /\ UNCHANGED <<check_vars, loader_vars, impl_vars>>

\* the loop of _generate_and_approve is over: raise RuntimeError, which ends
\* the run
GenerateExhausted ==
    /\ session_pc = "generate"
    /\ attempt = SessionMaxAttempts
    /\ session_pc' = "raised"
    /\ state' = None
    /\ UNCHANGED <<session_file, index, config, cycle, attempt, test_source,
                   approved_source, process_calls>>
    /\ UNCHANGED <<check_vars, loader_vars, impl_vars>>

\* prompt_user_review: the decision approve; return True, test_source
Approve ==
    /\ session_pc = "review"
    /\ session_pc' = "critique"
    /\ UNCHANGED <<state, session_file, index, config, cycle, attempt, test_source,
                   approved_source, process_calls>>
    /\ UNCHANGED <<check_vars, loader_vars, impl_vars>>

\* prompt_user_review: the decision regenerate; return False, ""
Regenerate ==
    /\ session_pc = "review"
    /\ approved_source' = None
    /\ session_pc' = "generate"
    /\ UNCHANGED <<state, session_file, index, config, cycle, attempt, test_source,
                   process_calls>>
    /\ UNCHANGED <<check_vars, loader_vars, impl_vars>>

\* prompt_user_review: the decision edit; the edited text, when the editor
\* gave one, takes the place of test_source and the prompt is shown again
Edit(edited) ==
    /\ session_pc = "review"
    /\ approved_source' = IF edited # None THEN edited ELSE approved_source
    /\ UNCHANGED <<session_pc, state, session_file, index, config, cycle, attempt,
                   test_source, process_calls>>
    /\ UNCHANGED <<check_vars, loader_vars, impl_vars>>

\* StoreProgress without save_session
StoreProgress_unsaved ==
    /\ state' = [state EXCEPT !.function_progress[index] =
                    FunctionProgress(@.name, "done", approved_source)]
    /\ session_file' = session_file
    /\ index' = index + 1
    /\ session_pc' = "loop"

\* process_function returns FunctionProgress(status=done,
\* test_source=approved_source); state.function_progress[index] = updated;
\* save_session(state, session_path)
StoreProgress ==
    /\ state' = [state EXCEPT !.function_progress[index] =
                    FunctionProgress(@.name, "done", approved_source)]
    /\ session_file' = state'
    /\ index' = index + 1
    /\ session_pc' = "loop"

\* process_function returns: prompt_critique_review returned True, or it
\* returned False in the last cycle and the return after the loop is taken;
\* both give the same FunctionProgress
CritiqueDone ==
    /\ session_pc = "critique"
    /\ StoreProgress
    /\ UNCHANGED <<config, cycle, attempt, test_source, approved_source, process_calls>>
    /\ UNCHANGED <<check_vars, loader_vars, impl_vars>>

\* prompt_critique_review returns False and a cycle is left
CritiqueImprove ==
    /\ session_pc = "critique"
    /\ cycle < max_critique_cycles
    /\ cycle' = cycle + 1
    /\ attempt' = 0
    /\ session_pc' = "generate"
    /\ UNCHANGED <<state, session_file, index, config, test_source, approved_source,
                   process_calls>>
    /\ UNCHANGED <<check_vars, loader_vars, impl_vars>>

\* the run is interrupted: what it held in memory is lost, the file stays
Interrupt ==
    /\ session_pc \in {"loop", "generate", "review", "critique"}
    /\ session_pc' = "stopped"
    /\ state' = None
    /\ UNCHANGED <<session_file, index, config, cycle, attempt, test_source,
                   approved_source, process_calls>>
    /\ UNCHANGED <<check_vars, loader_vars, impl_vars>>

NextSession ==
    \/ \E spec \in SessionSpecs, cfg \in SessionConfigs : StartSession(spec, cfg)
    \/ SkipDone
    \/ BeginFunction
    \/ FinishSession
    \/ \E source \in TestSources : Generate(source)
    \/ GenerateExhausted
    \/ Approve
    \/ Regenerate
    \/ \E edited \in TestSources \cup {None} : Edit(edited)
    \/ CritiqueDone
    \/ CritiqueImprove
    \/ Interrupt

SpecSession == Init /\ [][NextSession]_vars

(***************************************************************************)
(* The claims about run_session and _generate_and_approve.                 *)
(***************************************************************************)

\* process_function is at work on state[index]
Processing == session_pc \in {"generate", "review", "critique"}

\* the entries the run holds in memory and those of the session file
InMemory == state.function_progress

OnDisk == session_file.function_progress


\* C28: run_session calls process_function once for each function whose
\* persisted status is not done, in session order, and never for one that is
\* done; after each it replaces the entry and saves the session before it
\* starts the next, so that a run after an interruption never processes a
\* function that was saved as done.
C28_PendingProcessedOnce ==
    /\ session_pc = "loop" => session_file = state
    /\ Processing =>
          /\ OnDisk[index].status # "done"
          /\ OnDisk[index].name = InMemory[index].name
          /\ \A i \in 1..(index - 1) : OnDisk[i] = InMemory[i]
    /\ session_pc \in {"loop", "generate", "review", "critique", "returned"} =>
          /\ LET done_so_far == Len(process_calls.called)
             IN  /\ done_so_far <= Len(process_calls.pending)
                 /\ process_calls.called = SubSeq(process_calls.pending, 1, done_so_far)
          /\ \A i \in 1..Len(InMemory) :
                InMemory[i].name \notin Range(process_calls.pending)
                    => (InMemory[i].status = "done" /\ OnDisk[i] = InMemory[i])
          /\ \A i \in 1..Len(process_calls.called) :
                \A j \in 1..Len(process_calls.called) :
                    process_calls.called[i] = process_calls.called[j] => i = j
    /\ Processing => process_calls.called[Len(process_calls.called)] = InMemory[index].name
    /\ session_pc = "returned" =>
          /\ process_calls.called = process_calls.pending
          /\ \A i \in 1..Len(OnDisk) : OnDisk[i].status = "done"

\* a run resumed a session in which login was saved as done and logout was
\* not, and returned having called process_function for logout only
C28_Witness ==
    /\ session_pc = "returned"
    /\ Len(InMemory) = 2
    /\ process_calls.pending = <<"logout">>
    /\ process_calls.called = <<"logout">>

UneditedSourcesValidated ==
    (session_pc = "critique" /\ approved_source = test_source)
        => truthy(approved_source) /\ passes_validation(approved_source)

\* with auto_tests the source returned is the one generated
AutoApprovedAsGenerated ==
    (session_pc = "critique" /\ config.auto_tests) => approved_source = test_source

\* a text that does not parse, left by the editor and then approved, is the
\* test_source of a done FunctionProgress in the session file
EditedSourceStored ==
    /\ session_file # None
    /\ \E i \in 1..Len(OnDisk) :
          /\ OnDisk[i].status = "done"
          /\ OnDisk[i].test_source = Text("invalid_short")

====
